---- MODULE Spec2Model ----
(***************************************************************************)
(* vtt-to-md: WebVTT parser, speaker consolidator and Markdown formatter.  *)
(*                                                                         *)
(* A Rust String is modelled as a sequence of characters, each character a *)
(* one-character TLA+ string; the characters a TLA+ string cannot hold are *)
(* named ("BACKTICK", "COMBINING ACUTE", "E ACUTE").  Option<T> is a       *)
(* record [some, val].                                                     *)
(***************************************************************************)
EXTENDS Integers, Sequences, FiniteSets, TLC

VARIABLES
    pc,                 \* control position of the operation in progress
    cues,               \* parse_cues: Vec<Cue>, in the order save_cue pushed them
    current_timestamp,  \* parse_cues: Option<String>
    current_text,       \* parse_cues: Vec<String>, the pending cue's raw lines
    in_metadata_block,  \* parse_cues: bool
    document,           \* Option<VttDocument>: the document parse returned
    result,             \* the Result of the operation: [kind, reason]
    cons_cues,          \* consolidate_cues: the cues iterated so far
    unknown_speaker_label, \* consolidate_cues argument
    timestamp_mode,     \* consolidate_cues / format_markdown argument
    segments,           \* Vec<SpeakerSegment>
    current_speaker,    \* consolidate_cues: Option<String>
    current_texts,      \* consolidate_cues: Vec<String>
    current_timestamps, \* consolidate_cues: Vec<String>
    first_timestamp,    \* consolidate_cues: Option<String>
    fmt_done,           \* format_markdown: number of segments rendered so far
    markdown,           \* format_markdown: the result String
    args,               \* run_conversion: the Args record
    input_file,         \* the file at the input path: [open, lines], open the outcome of
                        \* fs::File::open and lines the io::Result<String> items of its reader
    out_file,           \* the file at the output path: Option<String>
    stdout,             \* what the process has written to standard output
    save_combined,      \* save_cue: combined, the text lines joined
    save_speaker,       \* save_cue: speaker, the Option<String> extracted from combined
    save_text,          \* save_cue: text, the content extracted from combined
    save_cleaned_text,  \* save_cue: cleaned_text, Option<String> (None before clean_text ran)
    argv,               \* main: the Args that Args::try_parse returned
    files,              \* main: the file system, path -> Option<String>
    runs                \* main: number of invocations that have ended

parserVars == <<cues, current_timestamp, current_text,
                in_metadata_block, document>>
consVars == <<cons_cues, unknown_speaker_label, current_speaker, current_texts,
              current_timestamps, first_timestamp>>
fmtVars == <<fmt_done, markdown>>
runVars == <<args, input_file, out_file, stdout>>
saveVars == <<save_combined, save_speaker, save_text, save_cleaned_text>>
mainVars == <<argv, files, runs>>
vars == <<pc, result, timestamp_mode, segments, parserVars, consVars, fmtVars, runVars,
          saveVars, mainVars>>

----------------------------------------------------------------------------
(* Option<T> *)
None == [some |-> FALSE, val |-> <<>>]
Some(v) == [some |-> TRUE, val |-> v]

(* char::is_whitespace on the characters of the model's alphabet *)
IsWs(c) == c \in {" ", "\t", "\n"}
IsDigit(c) == c \in {"0", "1", "2", "3", "4", "5", "6", "7", "8", "9"}

(* str::trim *)
RECURSIVE trim_start(_)
trim_start(s) ==
    IF s # <<>> /\ IsWs(Head(s)) THEN trim_start(Tail(s)) ELSE s

RECURSIVE trim_end(_)
trim_end(s) ==
    IF s # <<>> /\ IsWs(s[Len(s)]) THEN trim_end(SubSeq(s, 1, Len(s) - 1)) ELSE s

trim(s) == trim_end(trim_start(s))

(* str::starts_with *)
starts_with(s, p) == Len(s) >= Len(p) /\ SubSeq(s, 1, Len(p)) = p

(* str::find from index i: the index of the first occurrence of pat at or
   after i, 0 when there is none *)
RECURSIVE find(_, _, _)
find(s, pat, i) ==
    IF i + Len(pat) - 1 > Len(s) THEN 0
    ELSE IF SubSeq(s, i, i + Len(pat) - 1) = pat THEN i
    ELSE find(s, pat, i + 1)

(* str::replace: every non-overlapping occurrence of pat, leftmost first *)
RECURSIVE replace(_, _, _)
replace(s, pat, rep) ==
    IF Len(s) < Len(pat) THEN s
    ELSE IF SubSeq(s, 1, Len(pat)) = pat
         THEN rep \o replace(SubSeq(s, Len(pat) + 1, Len(s)), pat, rep)
         ELSE <<Head(s)>> \o replace(Tail(s), pat, rep)

(* [String]::join *)
RECURSIVE join(_, _)
join(strs, sep) ==
    IF strs = <<>> THEN <<>>
    ELSE IF Len(strs) = 1 THEN strs[1]
    ELSE strs[1] \o sep \o join(Tail(strs), sep)

(* the regex \s* from index i: the index of the first non-whitespace
   character at or after i *)
RECURSIVE SkipWs(_, _)
SkipWs(s, i) == IF i <= Len(s) /\ IsWs(s[i]) THEN SkipWs(s, i + 1) ELSE i

(* the regex \d{2}:\d{2}:\d{2}\.\d{3} matched at index i *)
MatchTime(s, i) ==
    /\ i + 11 <= Len(s)
    /\ \A k \in 0..11 :
          IF k \in {2, 5} THEN s[i + k] = ":"
          ELSE IF k = 8 THEN s[i + k] = "."
          ELSE IsDigit(s[i + k])

(* timestamp_regex.captures(&line): Some(captures[1]) on a match *)
timestamp_regex(line) ==
    LET a == SkipWs(line, 1)
        b == SkipWs(line, a + 12)
        c == SkipWs(line, b + 3)
    IN  IF /\ MatchTime(line, a)
           /\ b + 2 <= Len(line)
           /\ SubSeq(line, b, b + 2) = <<"-", "-", ">">>
           /\ MatchTime(line, c)
        THEN Some(SubSeq(line, a, a + 11))
        ELSE None

----------------------------------------------------------------------------
(* extract_speaker_and_text *)

LT == <<"<">>
GT == <<">">>
VOpen == <<"<", "v">>
VEmpty == <<"<", "v", ">">>
VClose == <<"<", "/", "v", ">">>

\* The prefix <v\s+([^>]*)> of the voice regexes matched at index i: the index
\* of the closing '>', 0 when the prefix does not match there.
OpenTagAt(s, i) ==
    IF /\ i + 2 <= Len(s)
       /\ SubSeq(s, i, i + 1) = VOpen
       /\ IsWs(s[i + 2])
    THEN find(s, GT, i + 3)
    ELSE 0

\* voice_closed_regex (?s)<v\s+([^>]*)>(.*?)</v>: the leftmost index at which
\* the whole pattern matches, 0 when there is none.
RECURSIVE ClosedMatchFrom(_, _)
ClosedMatchFrom(s, i) ==
    IF i > Len(s) THEN 0
    ELSE LET gt == OpenTagAt(s, i)
         IN  IF gt # 0 /\ find(s, VClose, gt + 1) # 0 THEN i
             ELSE ClosedMatchFrom(s, i + 1)

\* voice_open_regex (?s)<v\s+([^>]*)>(.*): the leftmost match, 0 when none.
RECURSIVE OpenMatchFrom(_, _)
OpenMatchFrom(s, i) ==
    IF i > Len(s) THEN 0
    ELSE IF OpenTagAt(s, i) # 0 THEN i
    ELSE OpenMatchFrom(s, i + 1)

(* Some(name) unless the name is empty *)
SpeakerOf(speaker_str) ==
    IF speaker_str = <<>> THEN None ELSE Some(speaker_str)

(* extract_speaker_and_text with the body of a closed tag running to the
   last closing tag of the buffer *)
extract_speaker_and_text_greedy_body(text) ==
    LET ci == ClosedMatchFrom(text, 1)
        ei == find(text, VEmpty, 1)
        oi == OpenMatchFrom(text, 1)
        last_close(from) ==
            CHOOSE c \in from..Len(text) :
                /\ find(text, VClose, c) = c
                /\ find(text, VClose, c + 1) = 0
    IN  IF ci # 0 THEN
            LET gt == OpenTagAt(text, ci)
                name == SubSeq(text, SkipWs(text, ci + 2), gt - 1)
            IN  [speaker |-> SpeakerOf(trim(name)),
                 text |-> SubSeq(text, gt + 1, last_close(gt + 1) - 1)]
        ELSE IF ei # 0 /\ find(text, VClose, ei + 3) # 0 THEN
            [speaker |-> None,
             text |-> SubSeq(text, ei + 3, last_close(ei + 3) - 1)]
        ELSE IF oi # 0 THEN
            LET gt == OpenTagAt(text, oi)
                name == SubSeq(text, SkipWs(text, oi + 2), gt - 1)
            IN  [speaker |-> SpeakerOf(trim(name)),
                 text |-> SubSeq(text, gt + 1, Len(text))]
        ELSE [speaker |-> None, text |-> text]

(* extract_speaker_and_text trying the empty-name closed tag before the
   named closed tag *)
extract_speaker_and_text_empty_first(text) ==
    LET ci == ClosedMatchFrom(text, 1)
        ei == find(text, VEmpty, 1)
        oi == OpenMatchFrom(text, 1)
    IN  IF ei # 0 /\ find(text, VClose, ei + 3) # 0 THEN
            [speaker |-> None,
             text |-> SubSeq(text, ei + 3, find(text, VClose, ei + 3) - 1)]
        ELSE IF ci # 0 THEN
            LET gt == OpenTagAt(text, ci)
                close == find(text, VClose, gt + 1)
                name == SubSeq(text, SkipWs(text, ci + 2), gt - 1)
            IN  [speaker |-> SpeakerOf(trim(name)),
                 text |-> SubSeq(text, gt + 1, close - 1)]
        ELSE IF oi # 0 THEN
            LET gt == OpenTagAt(text, oi)
                name == SubSeq(text, SkipWs(text, oi + 2), gt - 1)
            IN  [speaker |-> SpeakerOf(trim(name)),
                 text |-> SubSeq(text, gt + 1, Len(text))]
        ELSE [speaker |-> None, text |-> text]

extract_speaker_and_text(text) ==
    LET ci == ClosedMatchFrom(text, 1)
        ei == find(text, VEmpty, 1)
        oi == OpenMatchFrom(text, 1)
    IN  IF ci # 0 THEN
            LET gt == OpenTagAt(text, ci)
                close == find(text, VClose, gt + 1)
                name == SubSeq(text, SkipWs(text, ci + 2), gt - 1)
            IN  [speaker |-> SpeakerOf(trim(name)),
                 text |-> SubSeq(text, gt + 1, close - 1)]
        ELSE IF ei # 0 /\ find(text, VClose, ei + 3) # 0 THEN
            [speaker |-> None,
             text |-> SubSeq(text, ei + 3, find(text, VClose, ei + 3) - 1)]
        ELSE IF oi # 0 THEN
            LET gt == OpenTagAt(text, oi)
                name == SubSeq(text, SkipWs(text, oi + 2), gt - 1)
            IN  [speaker |-> SpeakerOf(trim(name)),
                 text |-> SubSeq(text, gt + 1, Len(text))]
        ELSE [speaker |-> None, text |-> text]

----------------------------------------------------------------------------
(* clean_text and the sanitizers *)

\* html_tag_regex <[^>]+> replaced by "" everywhere: a '<', at least one
\* character other than '>', and the next '>'.
RECURSIVE strip_html_tags(_)
strip_html_tags(s) ==
    IF s = <<>> THEN <<>>
    ELSE IF Head(s) = "<" /\ find(s, GT, 2) >= 3
         THEN strip_html_tags(SubSeq(s, find(s, GT, 2) + 1, Len(s)))
         ELSE <<Head(s)>> \o strip_html_tags(Tail(s))

decode_html_entities(text) ==
    LET r1 == replace(text, <<"&", "a", "m", "p", ";">>, <<"&">>)
        r2 == replace(r1, <<"&", "l", "t", ";">>, <<"<">>)
        r3 == replace(r2, <<"&", "g", "t", ";">>, <<">">>)
        r4 == replace(r3, <<"&", "q", "u", "o", "t", ";">>, <<"\"">>)
        r5 == replace(r4, <<"&", "#", "3", "9", ";">>, <<"'">>)
    IN  replace(r5, <<"&", "#", "x", "2", "7", ";">>, <<"'">>)

\* whitespace_regex \s+ replaced by one space everywhere
RECURSIVE collapse_whitespace(_)
collapse_whitespace(s) ==
    IF s = <<>> THEN <<>>
    ELSE IF IsWs(Head(s)) THEN <<" ">> \o collapse_whitespace(trim_start(s))
    ELSE <<Head(s)>> \o collapse_whitespace(Tail(s))

(* clean_text with the trim applied to its argument instead of its result *)
clean_text_trim_first(text) ==
    collapse_whitespace(decode_html_entities(strip_html_tags(trim(text))))

clean_text(text) ==
    trim(collapse_whitespace(decode_html_entities(strip_html_tags(text))))

(* str::nfc on the model's alphabet: the only decomposed pair in it is "e"
   followed by the combining acute accent, which composes to one character *)
RECURSIVE nfc(_)
nfc(s) ==
    IF Len(s) < 2 THEN s
    ELSE IF s[1] = "e" /\ s[2] = "COMBINING ACUTE"
         THEN <<"E ACUTE">> \o nfc(SubSeq(s, 3, Len(s)))
         ELSE <<Head(s)>> \o nfc(Tail(s))

MarkdownSpecial ==
    {"*", "_", "#", "[", "]", "(", ")", "{", "}", "!", ">", "|", "BACKTICK", "\\"}

(* escape_markdown with the backslash left out of the escaped characters *)
RECURSIVE escape_markdown_keeps_backslash(_)
escape_markdown_keeps_backslash(text) ==
    IF text = <<>> THEN <<>>
    ELSE (IF Head(text) \in MarkdownSpecial \ {"\\"}
          THEN <<"\\", Head(text)>>
          ELSE <<Head(text)>>) \o escape_markdown_keeps_backslash(Tail(text))

RECURSIVE escape_markdown(_)
escape_markdown(text) ==
    IF text = <<>> THEN <<>>
    ELSE (IF Head(text) \in MarkdownSpecial
          THEN <<"\\", Head(text)>>
          ELSE <<Head(text)>>) \o escape_markdown(Tail(text))

sanitize_speaker_name(name) ==
    LET no_at == SelectSeq(name, LAMBDA c : c # "@")
        trimmed == trim(nfc(no_at))
    IN  IF trimmed = <<>> THEN None ELSE Some(escape_markdown(trimmed))

(* Option::and_then(sanitize_speaker_name) *)
and_then_sanitize(speaker) ==
    IF speaker.some THEN sanitize_speaker_name(speaker.val) ELSE None

(* save_cue without the check for an empty cleaned text *)
save_cue_keep_empty(cs, timestamp, text_lines) ==
    LET st == extract_speaker_and_text(join(text_lines, <<"\n">>))
    IN  Append(cs, [timestamp |-> timestamp,
                    speaker |-> and_then_sanitize(st.speaker),
                    text |-> clean_text(st.text)])

(* save_cue: the cue vector after the call *)
save_cue(cs, timestamp, text_lines) ==
    LET combined == join(text_lines, <<"\n">>)
        st == extract_speaker_and_text(combined)
        cleaned_text == clean_text(st.text)
    IN  IF trim(cleaned_text) = <<>> THEN cs
        ELSE Append(cs, [timestamp |-> timestamp,
                         speaker |-> and_then_sanitize(st.speaker),
                         text |-> cleaned_text])

----------------------------------------------------------------------------
(* parse_cues *)

NOTE == <<"N", "O", "T", "E">>
STYLE == <<"S", "T", "Y", "L", "E">>
REGION == <<"R", "E", "G", "I", "O", "N">>
WEBVTT == <<"W", "E", "B", "V", "T", "T">>

(* the locals of parse_cues before the loop *)
ScanInit ==
    [cues |-> <<>>, current_timestamp |-> None, current_text |-> <<>>,
     in_metadata_block |-> FALSE]

(* the loop body saving the pending cue under the new timing line's start
   time *)
parse_cues_line_stamps_late(st, line) ==
    LET trimmed == trim(line)
        captures == timestamp_regex(line)
        saved == save_cue(st.cues, st.current_timestamp, st.current_text)
    IN  IF \/ starts_with(trimmed, NOTE)
           \/ starts_with(trimmed, STYLE)
           \/ starts_with(trimmed, REGION)
        THEN [st EXCEPT !.in_metadata_block = TRUE]
        ELSE IF captures.some
        THEN [cues |-> IF st.current_text # <<>>
                       THEN save_cue(st.cues, captures, st.current_text)
                       ELSE st.cues,
              current_text |-> <<>>,
              current_timestamp |-> captures,
              in_metadata_block |-> FALSE]
        ELSE IF trimmed = <<>>
        THEN IF st.current_text # <<>>
             THEN [cues |-> saved, current_text |-> <<>>,
                   current_timestamp |-> None, in_metadata_block |-> FALSE]
             ELSE [st EXCEPT !.in_metadata_block = FALSE]
        ELSE IF st.in_metadata_block THEN st
        ELSE IF ~st.current_timestamp.some /\ st.current_text # <<>> THEN st
        ELSE IF st.current_timestamp.some
        THEN [st EXCEPT !.current_text = Append(@, line)]
        ELSE st

(* the loop body collecting a text line whether or not a timestamp is open *)
parse_cues_line_collects_untimed(st, line) ==
    LET trimmed == trim(line)
        captures == timestamp_regex(line)
        saved == save_cue(st.cues, st.current_timestamp, st.current_text)
    IN  IF \/ starts_with(trimmed, NOTE)
           \/ starts_with(trimmed, STYLE)
           \/ starts_with(trimmed, REGION)
        THEN [st EXCEPT !.in_metadata_block = TRUE]
        ELSE IF captures.some
        THEN [cues |-> IF st.current_text # <<>> THEN saved ELSE st.cues,
              current_text |-> <<>>,
              current_timestamp |-> captures,
              in_metadata_block |-> FALSE]
        ELSE IF trimmed = <<>>
        THEN IF st.current_text # <<>>
             THEN [cues |-> saved, current_text |-> <<>>,
                   current_timestamp |-> None, in_metadata_block |-> FALSE]
             ELSE [st EXCEPT !.in_metadata_block = FALSE]
        ELSE IF st.in_metadata_block THEN st
        ELSE IF ~st.current_timestamp.some /\ st.current_text # <<>> THEN st
        ELSE [st EXCEPT !.current_text = Append(@, line)]

(* the loop body with REGION missing from the metadata markers and with
   lines inside a metadata block collected like cue text *)
parse_cues_line_keeps_metadata(st, line) ==
    LET trimmed == trim(line)
        captures == timestamp_regex(line)
        saved == save_cue(st.cues, st.current_timestamp, st.current_text)
    IN  IF \/ starts_with(trimmed, NOTE)
           \/ starts_with(trimmed, STYLE)
        THEN [st EXCEPT !.in_metadata_block = TRUE]
        ELSE IF captures.some
        THEN [cues |-> IF st.current_text # <<>> THEN saved ELSE st.cues,
              current_text |-> <<>>,
              current_timestamp |-> captures,
              in_metadata_block |-> FALSE]
        ELSE IF trimmed = <<>>
        THEN IF st.current_text # <<>>
             THEN [cues |-> saved, current_text |-> <<>>,
                   current_timestamp |-> None, in_metadata_block |-> FALSE]
             ELSE [st EXCEPT !.in_metadata_block = FALSE]
        ELSE IF ~st.current_timestamp.some /\ st.current_text # <<>> THEN st
        ELSE IF st.current_timestamp.some
        THEN [st EXCEPT !.current_text = Append(@, line)]
        ELSE st

(* the loop body pushing a text line at the front of current_text *)
parse_cues_line_pushes_front(st, line) ==
    LET trimmed == trim(line)
        captures == timestamp_regex(line)
        saved == save_cue(st.cues, st.current_timestamp, st.current_text)
    IN  IF \/ starts_with(trimmed, NOTE)
           \/ starts_with(trimmed, STYLE)
           \/ starts_with(trimmed, REGION)
        THEN [st EXCEPT !.in_metadata_block = TRUE]
        ELSE IF captures.some
        THEN [cues |-> IF st.current_text # <<>> THEN saved ELSE st.cues,
              current_text |-> <<>>,
              current_timestamp |-> captures,
              in_metadata_block |-> FALSE]
        ELSE IF trimmed = <<>>
        THEN IF st.current_text # <<>>
             THEN [cues |-> saved, current_text |-> <<>>,
                   current_timestamp |-> None, in_metadata_block |-> FALSE]
             ELSE [st EXCEPT !.in_metadata_block = FALSE]
        ELSE IF st.in_metadata_block THEN st
        ELSE IF ~st.current_timestamp.some /\ st.current_text # <<>> THEN st
        ELSE IF st.current_timestamp.some
        THEN [st EXCEPT !.current_text = <<line>> \o @]
        ELSE st

(* One iteration of the `for line_result in lines` loop on an Ok line: the
   locals after it.  The conditionals are the loop body's, in its order. *)
parse_cues_line(st, line) ==
    LET trimmed == trim(line)
        captures == timestamp_regex(line)
        saved == save_cue(st.cues, st.current_timestamp, st.current_text)
    IN  IF \/ starts_with(trimmed, NOTE)
           \/ starts_with(trimmed, STYLE)
           \/ starts_with(trimmed, REGION)
        THEN [st EXCEPT !.in_metadata_block = TRUE]
        ELSE IF captures.some
        THEN [cues |-> IF st.current_text # <<>> THEN saved ELSE st.cues,
              current_text |-> <<>>,
              current_timestamp |-> captures,
              in_metadata_block |-> FALSE]
        ELSE IF trimmed = <<>>
        THEN IF st.current_text # <<>>
             THEN [cues |-> saved, current_text |-> <<>>,
                   current_timestamp |-> None, in_metadata_block |-> FALSE]
             ELSE [st EXCEPT !.in_metadata_block = FALSE]
        ELSE IF st.in_metadata_block THEN st
        ELSE IF ~st.current_timestamp.some /\ st.current_text # <<>> THEN st
        ELSE IF st.current_timestamp.some
        THEN [st EXCEPT !.current_text = Append(@, line)]
        ELSE st

(* u8 of the characters a captured timestamp holds *)
char_code(c) ==
    CASE c = "." -> 46 [] c = "0" -> 48 [] c = "1" -> 49 [] c = "2" -> 50
      [] c = "3" -> 51 [] c = "4" -> 52 [] c = "5" -> 53 [] c = "6" -> 54
      [] c = "7" -> 55 [] c = "8" -> 56 [] c = "9" -> 57 [] c = ":" -> 58

(* String::cmp(a, b) = Less: byte-wise lexicographic *)
RECURSIVE str_less(_, _)
str_less(a, b) ==
    IF b = <<>> THEN FALSE
    ELSE IF a = <<>> THEN TRUE
    ELSE IF Head(a) = Head(b) THEN str_less(Tail(a), Tail(b))
    ELSE char_code(Head(a)) < char_code(Head(b))

(* the sort_by closure returning Ordering::Less *)
cue_less(a, b) ==
    IF a.timestamp.some /\ b.timestamp.some
    THEN str_less(a.timestamp.val, b.timestamp.val)
    ELSE a.timestamp.some /\ ~b.timestamp.some

(* Vec::sort_by, a stable sort: each cue is inserted after the cues that do
   not compare greater than it *)
(* an unstable insertion: the cue goes before the cues that compare equal *)
RECURSIVE insert_cue_before_equal(_, _)
insert_cue_before_equal(sorted, c) ==
    IF sorted = <<>> THEN <<c>>
    ELSE IF ~cue_less(Head(sorted), c) THEN <<c>> \o sorted
    ELSE <<Head(sorted)>> \o insert_cue_before_equal(Tail(sorted), c)

RECURSIVE insert_cue(_, _)
insert_cue(sorted, c) ==
    IF sorted = <<>> THEN <<c>>
    ELSE IF cue_less(c, Head(sorted)) THEN <<c>> \o sorted
    ELSE <<Head(sorted)>> \o insert_cue(Tail(sorted), c)

RECURSIVE sort_by(_)
sort_by(cs) ==
    IF cs = <<>> THEN <<>>
    ELSE insert_cue(sort_by(SubSeq(cs, 1, Len(cs) - 1)), cs[Len(cs)])

(* cues.iter().any(|cue| cue.speaker.is_some()) *)
any_speaker(cs) == \E i \in 1..Len(cs) : cs[i].speaker.some

(* has_voice_tags computed before the final cue is saved *)
parse_cues_end_flag_first(st) ==
    LET final == IF st.current_text # <<>>
                 THEN save_cue(st.cues, st.current_timestamp, st.current_text)
                 ELSE st.cues
    IN  [scanned |-> final,
         cues |-> sort_by(final),
         has_voice_tags |-> any_speaker(st.cues)]

(* parse_cues after the loop: the final save, has_voice_tags, the sort *)
parse_cues_end(st) ==
    LET final == IF st.current_text # <<>>
                 THEN save_cue(st.cues, st.current_timestamp, st.current_text)
                 ELSE st.cues
    IN  [scanned |-> final,
         cues |-> sort_by(final),
         has_voice_tags |-> any_speaker(final)]

----------------------------------------------------------------------------
(* VttDocument::parse *)

(* the items of BufReader::lines(): io::Result<String> *)
LineOk(l) == [ok |-> TRUE, line |-> l]
LineErr == [ok |-> FALSE, line |-> <<>>]

(* Result<_, VttError>: the kind of the value (Ok, or the VttError variant)
   and the reason string of a ParseError *)
Pending == [kind |-> "Pending", reason |-> ""]
Ok == [kind |-> "Ok", reason |-> ""]
Err(kind) == [kind |-> kind, reason |-> ""]
ParseError(reason) == [kind |-> "ParseError", reason |-> reason]

(* every failed open reported as a generic I/O error *)
open_error_generic(io_kind) == Err("IoError")

(* the map_err closure on fs::File::open: the VttError of an io::ErrorKind *)
open_error(io_kind) ==
    IF io_kind = "NotFound" THEN Err("FileNotFound")
    ELSE IF io_kind = "PermissionDenied" THEN Err("PermissionDenied")
    ELSE Err("IoError")

(* the header check without the trim *)
header_ok_untrimmed(first_line) == starts_with(first_line, WEBVTT)

(* the header check on the first item of the reader *)
header_ok(first_line) == starts_with(trim(first_line), WEBVTT)

(* VttError::exit_code *)
exit_code(kind) ==
    CASE kind = "UsageError" -> 64
      [] kind = "ParseError" -> 65
      [] kind = "FileNotFound" -> 66
      [] kind = "OutputExists" -> 73
      [] kind = "WriteError" -> 74
      [] kind = "IoError" -> 74
      [] kind = "PermissionDenied" -> 77
      [] kind = "SameFile" -> 64

(* the loop of parse_cues over the remaining items: the locals after it,
   and whether an item was an Err (the `?` returns at the first one) *)
RECURSIVE scan_lines(_, _)
scan_lines(st, items) ==
    IF items = <<>> THEN [err |-> FALSE, st |-> st]
    ELSE IF ~Head(items).ok THEN [err |-> TRUE, st |-> st]
    ELSE scan_lines(parse_cues_line(st, Head(items).line), Tail(items))

VttDocument(end) == [cues |-> end.cues, has_voice_tags |-> end.has_voice_tags]

(* VttDocument::parse of a file [open, lines]: open is "Ok" or the
   io::ErrorKind of the failed open, lines the items the reader yields *)
parse(file) ==
    IF file.open # "Ok"
    THEN [result |-> open_error(file.open), document |-> None]
    ELSE IF file.lines = <<>>
    THEN [result |-> ParseError("Empty file"), document |-> None]
    ELSE IF ~Head(file.lines).ok
    THEN [result |-> Err("IoError"), document |-> None]
    ELSE IF ~header_ok(Head(file.lines).line)
    THEN [result |-> ParseError("Missing WEBVTT header"), document |-> None]
    ELSE LET r == scan_lines(ScanInit, Tail(file.lines))
         IN  IF r.err
             THEN [result |-> Err("IoError"), document |-> None]
             ELSE [result |-> Ok,
                   document |-> Some(VttDocument(parse_cues_end(r.st)))]

----------------------------------------------------------------------------
(* consolidate_cues *)

(* the locals of consolidate_cues before the loop *)
ConsInit ==
    [segments |-> <<>>, current_speaker |-> None, current_texts |-> <<>>,
     current_timestamps |-> <<>>, first_timestamp |-> None]

(* join_texts: the loop over texts, result being the String built so far *)
RECURSIVE join_texts_loop(_, _)
join_texts_loop(res, texts) ==
    IF texts = <<>> THEN res
    ELSE LET text == trim(Head(texts))
         IN  IF text = <<>> THEN join_texts_loop(res, Tail(texts))
             ELSE join_texts_loop(
                      (IF res # <<>> THEN res \o <<" ">> ELSE res) \o text,
                      Tail(texts))

(* the entries joined without being trimmed *)
join_texts_untrimmed(texts) ==
    join(SelectSeq(texts, LAMBDA t : trim(t) # <<>>), <<" ">>)

join_texts(texts) == join_texts_loop(<<>>, texts)

(* Each treated like First *)
segment_timestamp_each_first(mode, first) ==
    IF mode \in {"First", "Each"} THEN first ELSE None

(* the `match timestamp_mode` of a segment being pushed *)
segment_timestamp(mode, first) ==
    IF mode = "First" THEN first ELSE None

(* the timestamps list kept only under the Each policy *)
close_segment_list_for_each(st, speaker, mode) ==
    [speaker |-> speaker,
     text |-> join_texts(st.current_texts),
     timestamp |-> segment_timestamp(mode, st.first_timestamp),
     timestamps |-> IF mode = "Each" THEN st.current_timestamps ELSE <<>>]

(* the SpeakerSegment pushed when a run is closed *)
close_segment(st, speaker, mode) ==
    [speaker |-> speaker,
     text |-> join_texts(st.current_texts),
     timestamp |-> segment_timestamp(mode, st.first_timestamp),
     timestamps |-> st.current_timestamps]

(* the label replaced by a name no cue carries *)
speaker_or_label_distinct(cue, label) ==
    IF cue.speaker.some THEN cue.speaker.val ELSE <<"?">> \o label

(* cue.speaker.clone().unwrap_or_else(|| unknown_speaker_label.to_string()) *)
speaker_or_label(cue, label) ==
    IF cue.speaker.some THEN cue.speaker.val ELSE label

(* one iteration of the loop with first_timestamp set by every cue *)
consolidate_cue_first_is_latest(st, cue, label, mode) ==
    IF trim(cue.text) = <<>> THEN st
    ELSE
    LET speaker == speaker_or_label(cue, label)
        speaker_changed == st.current_speaker # Some(speaker)
        saved ==
            IF speaker_changed /\ st.current_speaker.some
            THEN [st EXCEPT
                    !.segments = Append(@, close_segment(st, st.current_speaker.val, mode)),
                    !.current_texts = <<>>,
                    !.current_timestamps = <<>>]
            ELSE st
        started ==
            [saved EXCEPT !.current_speaker = Some(speaker),
                          !.first_timestamp = cue.timestamp]
    IN  [started EXCEPT
           !.current_texts = Append(@, cue.text),
           !.current_timestamps =
               IF cue.timestamp.some THEN Append(@, cue.timestamp.val) ELSE @]

(* one iteration of the loop without the check for an empty text *)
consolidate_cue_takes_blank(st, cue, label, mode) ==
    LET speaker == speaker_or_label(cue, label)
        speaker_changed == st.current_speaker # Some(speaker)
        saved ==
            IF speaker_changed /\ st.current_speaker.some
            THEN [st EXCEPT
                    !.segments = Append(@, close_segment(st, st.current_speaker.val, mode)),
                    !.current_texts = <<>>,
                    !.current_timestamps = <<>>]
            ELSE st
        started ==
            IF speaker_changed
            THEN [saved EXCEPT !.current_speaker = Some(speaker),
                               !.first_timestamp = cue.timestamp]
            ELSE saved
    IN  [started EXCEPT
           !.current_texts = Append(@, cue.text),
           !.current_timestamps =
               IF cue.timestamp.some THEN Append(@, cue.timestamp.val) ELSE @]

(* one iteration of `for cue in cues`: the locals after it *)
consolidate_cue(st, cue, label, mode) ==
    IF trim(cue.text) = <<>> THEN st
    ELSE
    LET speaker == speaker_or_label(cue, label)
        speaker_changed == st.current_speaker # Some(speaker)
        saved ==
            IF speaker_changed /\ st.current_speaker.some
            THEN [st EXCEPT
                    !.segments = Append(@, close_segment(st, st.current_speaker.val, mode)),
                    !.current_texts = <<>>,
                    !.current_timestamps = <<>>]
            ELSE st
        started ==
            IF speaker_changed
            THEN [saved EXCEPT !.current_speaker = Some(speaker),
                               !.first_timestamp = cue.timestamp]
            ELSE saved
    IN  [started EXCEPT
           !.current_texts = Append(@, cue.text),
           !.current_timestamps =
               IF cue.timestamp.some THEN Append(@, cue.timestamp.val) ELSE @]

(* consolidate_cues after the loop: the returned segments *)
consolidate_end(st, mode) ==
    IF st.current_speaker.some
    THEN Append(st.segments, close_segment(st, st.current_speaker.val, mode))
    ELSE st.segments

RECURSIVE consolidate_loop(_, _, _, _)
consolidate_loop(st, cs, label, mode) ==
    IF cs = <<>> THEN st
    ELSE consolidate_loop(consolidate_cue(st, Head(cs), label, mode),
                          Tail(cs), label, mode)

consolidate_cues(cs, label, mode) ==
    consolidate_end(consolidate_loop(ConsInit, cs, label, mode), mode)

----------------------------------------------------------------------------
(* format_markdown *)

(* a paragraph ended by one newline only *)
plain_paragraph_one_newline(segment) ==
    <<"*", "*">> \o segment.speaker \o <<":", "*", "*", " ">>
        \o segment.text \o <<"\n">>

(* format!("**{}:** {}\n\n", speaker, text) *)
plain_paragraph(segment) ==
    <<"*", "*">> \o segment.speaker \o <<":", "*", "*", " ">>
        \o segment.text \o <<"\n", "\n">>

(* format!("[{}] **{}:** {}\n\n", timestamp, speaker, text) *)
stamped_paragraph(timestamp, segment) ==
    <<"[">> \o timestamp \o <<"]", " ">> \o plain_paragraph(segment)

(* the Each layout showing the last timestamp of the list *)
format_segment_each_last(segment, mode) ==
    IF mode = "First" /\ segment.timestamp.some
    THEN stamped_paragraph(segment.timestamp.val, segment)
    ELSE IF mode = "Each" /\ segment.timestamps # <<>>
    THEN stamped_paragraph(segment.timestamps[Len(segment.timestamps)], segment)
    ELSE plain_paragraph(segment)

(* one iteration of `for segment in segments`: what is pushed onto result *)
format_segment(segment, mode) ==
    IF mode = "None" THEN plain_paragraph(segment)
    ELSE IF mode = "First"
    THEN IF segment.timestamp.some
         THEN stamped_paragraph(segment.timestamp.val, segment)
         ELSE plain_paragraph(segment)
    ELSE IF segment.timestamps # <<>>
         THEN stamped_paragraph(segment.timestamps[1], segment)
         ELSE plain_paragraph(segment)

RECURSIVE format_markdown(_, _)
format_markdown(segs, mode) ==
    IF segs = <<>> THEN <<>>
    ELSE format_segment(Head(segs), mode) \o format_markdown(Tail(segs), mode)

----------------------------------------------------------------------------
(* The inputs the specifications draw from *)

MaxLines == 5   \* lines of an input file, the header line included
MaxCues == 3    \* cues handed to consolidate_cues
MaxSegments == 2 \* segments handed to format_markdown

TS0 == <<"0", "0", ":", "0", "0", ":", "0", "0", ".", "0", "0", "0">>
TS1 == <<"0", "0", ":", "0", "0", ":", "0", "1", ".", "0", "0", "0">>
TS2 == <<"0", "0", ":", "0", "0", ":", "0", "2", ".", "0", "0", "0">>
TS3 == <<"0", "0", ":", "0", "0", ":", "0", "3", ".", "0", "0", "0">>
TS4 == <<"0", "0", ":", "0", "0", ":", "0", "4", ".", "0", "0", "0">>
Arrow == <<" ", "-", "-", ">", " ">>

Alice == <<"A", "l", "i", "c", "e">>
Bob == <<"B", "o", "b">>
Unknown == <<"U", "n", "k", "n", "o", "w", "n">>
Hello == <<"H", "e", "l", "l", "o">>
World == <<"w", "o", "r", "l", "d">>

(* first lines of a file *)
HeaderLines ==
    { WEBVTT,
      <<>>,
      <<" ">> \o WEBVTT \o <<" ", "-", " ", "x">>,
      <<"W", "E", "B">> }

(* later lines of a file *)
TimingLine1 == TS1 \o Arrow \o TS2
TimingLine2 == <<" ">> \o TS2 \o <<"-", "-", ">">> \o TS3 \o <<" ", "a", ":", "b">>
TaggedLine == <<"<", "v", " ">> \o Alice \o <<">", "H", "i", "<", "/", "v", ">">>
AnonymousLine == <<"<", "v", " ", "@", ">", "y", "o">>
EmptyTagLine == <<"<", "v", " ">> \o Bob \o <<">", " ", "<", "/", "v", ">">>
NoteLine == NOTE \o <<" ", "x">>
RegionLine == <<" ">> \o REGION
IdLine == <<"1">>

BodyLines ==
    { <<>>, TimingLine1, TimingLine2, TaggedLine, AnonymousLine,
      EmptyTagLine, NoteLine, RegionLine, IdLine }

Modes == {"None", "First", "Each"}
Labels == {Unknown, Alice}

(* the cues consolidate_cues is called with *)
CueSpeakers == {None, Some(Alice)}
CueTimestamps == {None, Some(TS1), Some(TS2)}
CueTexts == {Hello, <<" ">>, <<" ">> \o World \o <<" ">>}
CuePool ==
    { c \in { [timestamp |-> t, speaker |-> sp, text |-> x] :
                t \in CueTimestamps, sp \in CueSpeakers, x \in CueTexts } :
        \/ c.text = Hello
        \/ c.text = <<" ">> /\ c.timestamp # Some(TS2)
        \/ c.text \notin {Hello, <<" ">>} /\ c.timestamp # Some(TS1) /\ c.speaker.some }

(* the segments format_markdown is called with *)
SegmentPool ==
    { [speaker |-> sp, text |-> x, timestamp |-> t, timestamps |-> ts] :
        sp \in {Alice, Bob}, x \in {Hello, World},
        t \in {None, Some(TS1), Some(TS2)},
        ts \in {<<>>, <<TS1>>, <<TS2, TS1>>} }

----------------------------------------------------------------------------
(* The state of each operation while it is not running *)

ParserIdle ==
    /\ cues = <<>>
    /\ current_timestamp = None
    /\ current_text = <<>>
    /\ in_metadata_block = FALSE
    /\ document = None

ConsIdle ==
    /\ cons_cues = <<>>
    /\ unknown_speaker_label = <<>>
    /\ current_speaker = None
    /\ current_texts = <<>>
    /\ current_timestamps = <<>>
    /\ first_timestamp = None

FmtIdle ==
    /\ fmt_done = 0
    /\ markdown = <<>>

SaveIdle ==
    /\ save_combined = <<>>
    /\ save_speaker = None
    /\ save_text = <<>>
    /\ save_cleaned_text = None

MainIdle ==
    /\ argv = <<>>
    /\ files = <<>>
    /\ runs = 0

RunIdle ==
    /\ args = <<>>
    /\ input_file = [open |-> "Unopened", lines |-> <<>>]
    /\ out_file = None
    /\ stdout = <<>>

----------------------------------------------------------------------------
(* VttDocument::parse, one action per step of the reader *)

ParseInit ==
    /\ pc = "parse_open"
    /\ result = Pending
    /\ timestamp_mode = "None"
    /\ segments = <<>>
    /\ input_file = [open |-> "Unopened", lines |-> <<>>]
    /\ args = <<>>
    /\ out_file = None
    /\ stdout = <<>>
    /\ ParserIdle /\ ConsIdle /\ FmtIdle
    /\ SaveIdle
    /\ MainIdle

(* fs::File::open(path) and its map_err; input_file records what the file
   system and the reader have yielded so far *)
ParseOpen ==
    /\ pc = "parse_open"
    /\ \E io_kind \in {"Ok", "NotFound", "PermissionDenied", "Other"} :
          /\ input_file' = [input_file EXCEPT !.open = io_kind]
          /\ IF io_kind = "Ok"
             THEN pc' = "parse_header" /\ UNCHANGED result
             ELSE pc' = "parse_done" /\ result' = open_error(io_kind)
    /\ UNCHANGED <<args, out_file, stdout>>
    /\ UNCHANGED <<timestamp_mode, segments, parserVars, consVars, fmtVars>>
    /\ UNCHANGED saveVars
    /\ UNCHANGED mainVars

(* lines.next() on a file with no line at all *)
ParseHeaderEof ==
    /\ pc = "parse_header"
    /\ pc' = "parse_done"
    /\ result' = ParseError("Empty file")
    /\ UNCHANGED <<timestamp_mode, segments, parserVars, consVars, fmtVars, runVars>>
    /\ UNCHANGED saveVars
    /\ UNCHANGED mainVars

(* lines.next() yields the first item: the header check *)
ParseHeader ==
    /\ pc = "parse_header"
    /\ \E item \in {LineOk(l) : l \in HeaderLines} \cup {LineErr} :
          /\ input_file' = [input_file EXCEPT !.lines = <<item>>]
          /\ IF ~item.ok
             THEN pc' = "parse_done" /\ result' = Err("IoError")
             ELSE IF ~header_ok(item.line)
             THEN pc' = "parse_done" /\ result' = ParseError("Missing WEBVTT header")
             ELSE pc' = "parse_scan" /\ UNCHANGED result
    /\ UNCHANGED <<args, out_file, stdout>>
    /\ UNCHANGED <<timestamp_mode, segments, parserVars, consVars, fmtVars>>
    /\ UNCHANGED saveVars
    /\ UNCHANGED mainVars

(* one iteration of the loop of parse_cues *)
ParseLine ==
    /\ pc = "parse_scan"
    /\ Len(input_file.lines) < MaxLines
    /\ \E item \in {LineOk(l) : l \in BodyLines} \cup {LineErr} :
          /\ input_file' = [input_file EXCEPT !.lines = Append(@, item)]
          /\ IF ~item.ok
             THEN /\ pc' = "parse_done"
                  /\ result' = Err("IoError")
                  /\ UNCHANGED <<cues, current_timestamp, current_text, in_metadata_block>>
             ELSE LET st == parse_cues_line(
                                [cues |-> cues,
                                 current_timestamp |-> current_timestamp,
                                 current_text |-> current_text,
                                 in_metadata_block |-> in_metadata_block],
                                item.line)
                  IN  /\ cues' = st.cues
                      /\ current_timestamp' = st.current_timestamp
                      /\ current_text' = st.current_text
                      /\ in_metadata_block' = st.in_metadata_block
                      /\ UNCHANGED <<pc, result>>
    /\ UNCHANGED <<document, args, out_file, stdout>>
    /\ UNCHANGED <<timestamp_mode, segments, consVars, fmtVars>>
    /\ UNCHANGED saveVars
    /\ UNCHANGED mainVars

(* the reader is exhausted: the rest of parse_cues, and parse returns *)
ParseEnd ==
    /\ pc = "parse_scan"
    /\ LET end == parse_cues_end(
                      [cues |-> cues,
                       current_timestamp |-> current_timestamp,
                       current_text |-> current_text,
                       in_metadata_block |-> in_metadata_block])
       IN  /\ cues' = end.scanned
           /\ document' = Some(VttDocument(end))
    /\ pc' = "parse_done"
    /\ result' = Ok
    /\ UNCHANGED <<current_timestamp, current_text, in_metadata_block>>
    /\ UNCHANGED <<timestamp_mode, segments, consVars, fmtVars, runVars>>
    /\ UNCHANGED saveVars
    /\ UNCHANGED mainVars

ParseNext == ParseOpen \/ ParseHeaderEof \/ ParseHeader \/ ParseLine \/ ParseEnd

SpecParse == ParseInit /\ [][ParseNext]_vars

----------------------------------------------------------------------------
(* consolidate_cues, one action per iteration of its loop *)

ConsolidateInit ==
    /\ pc = "cons_loop"
    /\ result = Pending
    /\ timestamp_mode \in Modes
    /\ unknown_speaker_label \in Labels
    /\ segments = <<>>
    /\ cons_cues = <<>>
    /\ current_speaker = None
    /\ current_texts = <<>>
    /\ current_timestamps = <<>>
    /\ first_timestamp = None
    /\ ParserIdle /\ FmtIdle /\ RunIdle
    /\ SaveIdle
    /\ MainIdle

ConsLocals ==
    [segments |-> segments, current_speaker |-> current_speaker,
     current_texts |-> current_texts, current_timestamps |-> current_timestamps,
     first_timestamp |-> first_timestamp]

(* the loop takes the next cue of the slice *)
ConsolidateCue ==
    /\ pc = "cons_loop"
    /\ Len(cons_cues) < MaxCues
    /\ \E cue \in CuePool :
          LET st == consolidate_cue(ConsLocals, cue, unknown_speaker_label, timestamp_mode)
          IN  /\ cons_cues' = Append(cons_cues, cue)
              /\ segments' = st.segments
              /\ current_speaker' = st.current_speaker
              /\ current_texts' = st.current_texts
              /\ current_timestamps' = st.current_timestamps
              /\ first_timestamp' = st.first_timestamp
    /\ UNCHANGED <<pc, result, timestamp_mode, unknown_speaker_label>>
    /\ UNCHANGED <<parserVars, fmtVars, runVars>>
    /\ UNCHANGED saveVars
    /\ UNCHANGED mainVars

(* the slice is exhausted: the final segment is saved and segments returned *)
ConsolidateEnd ==
    /\ pc = "cons_loop"
    /\ segments' = consolidate_end(ConsLocals, timestamp_mode)
    /\ pc' = "cons_done"
    /\ result' = Ok
    /\ UNCHANGED <<timestamp_mode, consVars, parserVars, fmtVars, runVars>>
    /\ UNCHANGED saveVars
    /\ UNCHANGED mainVars

ConsolidateNext == ConsolidateCue \/ ConsolidateEnd

SpecConsolidate == ConsolidateInit /\ [][ConsolidateNext]_vars

----------------------------------------------------------------------------
(* format_markdown, one action per iteration of its loop; segments holds
   the segments of the slice iterated so far *)

FormatInit ==
    /\ pc = "fmt_loop"
    /\ result = Pending
    /\ timestamp_mode \in Modes
    /\ segments = <<>>
    /\ fmt_done = 0
    /\ markdown = <<>>
    /\ ParserIdle /\ ConsIdle /\ RunIdle
    /\ SaveIdle
    /\ MainIdle

FormatSegment ==
    /\ pc = "fmt_loop"
    /\ Len(segments) < MaxSegments
    /\ \E segment \in SegmentPool :
          /\ segments' = Append(segments, segment)
          /\ markdown' = markdown \o format_segment(segment, timestamp_mode)
    /\ fmt_done' = fmt_done + 1
    /\ UNCHANGED <<pc, result, timestamp_mode, parserVars, consVars, runVars>>
    /\ UNCHANGED saveVars
    /\ UNCHANGED mainVars

FormatEnd ==
    /\ pc = "fmt_loop"
    /\ pc' = "fmt_done"
    /\ result' = Ok
    /\ UNCHANGED <<timestamp_mode, segments, fmtVars, parserVars, consVars, runVars>>
    /\ UNCHANGED saveVars
    /\ UNCHANGED mainVars

FormatNext == FormatSegment \/ FormatEnd

SpecFormat == FormatInit /\ [][FormatNext]_vars

----------------------------------------------------------------------------
(* save_cue, one action per step; current_text holds the text lines of the
   call and current_timestamp its timestamp *)

MaxPieces == 3

(* fragments of cue text: entities, parts of entities, tag brackets *)
TextPieces ==
    { <<"&", "a", "m", "p", ";">>, <<"l", "t", ";">>, <<"&", "l", "t", ";">>,
      <<"&", "g", "t", ";">>, <<"a", "m", "p", ";">>, <<"<", "b", ">">>,
      <<"b">>, <<" ">>, <<"<">>, <<">">> }

(* the concatenations of at most n fragments *)
RECURSIVE PieceTexts(_)
PieceTexts(n) ==
    IF n = 0 THEN {<<>>}
    ELSE LET shorter == PieceTexts(n - 1)
         IN  shorter \cup {p \o t : p \in TextPieces, t \in shorter}

(* the names a voice tag carries *)
TagNames ==
    { Alice, <<>>, <<"@">>, <<" ", "@", " ">>, <<"A", "@", "b">>, <<"@", "A", "l", " ">>,
      <<"A", " ", "B">>, <<"e", "COMBINING ACUTE">>, <<"E ACUTE">>,
      <<"J", "o", "h", "n", "*", "D", "o", "e">> }
        \cup {<<"a", c, "b">> : c \in MarkdownSpecial \ {">"}}
        \cup {<<c, c>> : c \in MarkdownSpecial \ {">"}}

VoiceTag(name) == <<"<", "v", " ">> \o name \o <<">">>

(* the lines of one cue block: parse_cues pushes only lines that are not
   blank, and calls save_cue with at least one line *)
TextLinesPool ==
    {<<t>> : t \in {x \in PieceTexts(MaxPieces) : trim(x) # <<>>}}
        \cup {<<VoiceTag(n) \o Hello \o VClose>> : n \in TagNames}
        \cup {<<VoiceTag(n) \o World>> : n \in TagNames}
        \cup { <<VoiceTag(Alice) \o Hello, World \o VClose>>,
               <<VoiceTag(Bob) \o <<" ">> \o VClose>>,
               <<VEmpty \o Hello \o VClose>>,
               <<Hello, World>>,
               <<VoiceTag(Bob) \o Hello, World>>,
               <<VEmpty \o Hello \o VClose \o VoiceTag(Bob) \o World \o VClose>>,
               <<World \o VEmpty \o Hello \o VClose \o World>>,
               <<World \o <<" ">> \o VoiceTag(Alice) \o Hello \o VClose
                    \o <<" ">> \o VoiceTag(Bob) \o World \o VClose>> }

SaveCueInit ==
    /\ pc = "save_extract"
    /\ result = Pending
    /\ cues = <<>>
    /\ current_timestamp \in {Some(TS1), Some(TS2)}
    /\ current_text \in TextLinesPool
    /\ in_metadata_block = FALSE
    /\ document = None
    /\ timestamp_mode = "None"
    /\ segments = <<>>
    /\ SaveIdle /\ ConsIdle /\ FmtIdle /\ RunIdle
    /\ MainIdle

(* let combined = text_lines.join("\n");
   let (speaker, text) = extract_speaker_and_text(&combined); *)
SaveCueExtract ==
    /\ pc = "save_extract"
    /\ LET st == extract_speaker_and_text(join(current_text, <<"\n">>))
       IN  /\ save_combined' = join(current_text, <<"\n">>)
           /\ save_speaker' = st.speaker
           /\ save_text' = st.text
    /\ pc' = "save_clean"
    /\ UNCHANGED <<result, timestamp_mode, segments, save_cleaned_text>>
    /\ UNCHANGED <<parserVars, consVars, fmtVars, runVars>>
    /\ UNCHANGED mainVars

(* let cleaned_text = clean_text(&text); *)
SaveCueClean ==
    /\ pc = "save_clean"
    /\ save_cleaned_text' = Some(clean_text(save_text))
    /\ pc' = "save_check"
    /\ UNCHANGED <<result, timestamp_mode, segments>>
    /\ UNCHANGED <<save_combined, save_speaker, save_text>>
    /\ UNCHANGED <<parserVars, consVars, fmtVars, runVars>>
    /\ UNCHANGED mainVars

(* if cleaned_text.trim().is_empty() { return Ok(()); } *)
SaveCueSkip ==
    /\ pc = "save_check"
    /\ trim(save_cleaned_text.val) = <<>>
    /\ pc' = "save_done"
    /\ result' = Ok
    /\ UNCHANGED <<timestamp_mode, segments, parserVars, consVars, fmtVars, runVars, saveVars>>
    /\ UNCHANGED mainVars

(* the speaker is sanitized and the cue pushed *)
SaveCuePush ==
    /\ pc = "save_check"
    /\ trim(save_cleaned_text.val) # <<>>
    /\ cues' = Append(cues, [timestamp |-> current_timestamp,
                             speaker |-> and_then_sanitize(save_speaker),
                             text |-> save_cleaned_text.val])
    /\ pc' = "save_done"
    /\ result' = Ok
    /\ UNCHANGED <<current_timestamp, current_text, in_metadata_block, document>>
    /\ UNCHANGED <<timestamp_mode, segments, consVars, fmtVars, runVars, saveVars>>
    /\ UNCHANGED mainVars

SaveCueNext == SaveCueExtract \/ SaveCueClean \/ SaveCueSkip \/ SaveCuePush

SpecSaveCue == SaveCueInit /\ [][SaveCueNext]_vars

----------------------------------------------------------------------------
(* run_conversion, one action per stage *)

File(lines) == [open |-> "Ok", lines |-> [i \in 1..Len(lines) |-> LineOk(lines[i])]]

(* SIMPLE_VTT of the integration tests *)
SimpleVtt ==
    File(<< WEBVTT,
            <<>>,
            TS0 \o Arrow \o TS2,
            <<"<", "v", " ">> \o Alice \o <<">">> \o Hello \o <<" ">> \o World
                \o <<"<", "/", "v", ">">> >>)

(* a cue line whose speaker name holds a Markdown-significant character *)
StarLine == <<"<", "v", " ", "a", "*", "b", ">", "H", "i", "<", "/", "v", ">">>

(* the values of --unknown-speaker: the default, a speaker's name, and a
   label with Markdown-significant characters *)
RunLabels == Labels \cup {<<"*", "U", "*">>}

(* the files at args.input *)
RunFiles ==
    { SimpleVtt,
      File(<<WEBVTT, TimingLine2, TaggedLine, TimingLine1, AnonymousLine>>),
      File(<<WEBVTT, TimingLine1, IdLine, <<>>, TimingLine2, IdLine>>),
      File(<<WEBVTT, TimingLine1, TaggedLine, TimingLine2, IdLine,
             TimingLine2, TaggedLine>>),
      File(<<WEBVTT, TimingLine1, StarLine, TimingLine2, IdLine>>),
      File(<<IdLine, TimingLine1, TaggedLine>>),
      File(<<<<>>, WEBVTT, TimingLine1, TaggedLine>>),
      File(<<<<" ">> \o WEBVTT \o <<" ", "-", " ", "x">>, TimingLine1, TaggedLine>>),
      File(<<<<"W", "E", "B">>, WEBVTT, TimingLine1, TaggedLine>>),
      File(<<>>),
      [open |-> "Ok", lines |-> <<LineOk(WEBVTT), LineErr>>],
      [open |-> "NotFound", lines |-> <<>>],
      [open |-> "PermissionDenied", lines |-> <<>>],
      [open |-> "Other", lines |-> <<>>] }

OutPath == <<"o", ".", "m", "d">>
OldContent == <<"o", "l", "d">>

(* Args as run_conversion receives it: clap rejects --force with
   --no-clobber and --filter-unknown with --no-filter-unknown, and validate
   has derived an output path unless --stdout is set *)
RunArgs ==
    { a \in [unknown_speaker : RunLabels, include_timestamps : Modes,
             filter_unknown : BOOLEAN, no_filter_unknown : BOOLEAN,
             stdout : BOOLEAN, output : {None, Some(OutPath)},
             force : BOOLEAN, no_clobber : BOOLEAN] :
        /\ ~(a.force /\ a.no_clobber)
        /\ ~(a.filter_unknown /\ a.no_filter_unknown)
        /\ (~a.stdout => a.output.some) }

RunInit ==
    /\ pc = "run_parse"
    /\ result = Pending
    /\ args \in RunArgs
    /\ input_file \in RunFiles
    /\ out_file \in {None, Some(OldContent)}
    /\ stdout = <<>>
    /\ timestamp_mode = args.include_timestamps
    /\ segments = <<>>
    /\ ParserIdle /\ ConsIdle /\ FmtIdle
    /\ SaveIdle
    /\ MainIdle

(* let vtt_document = parser::VttDocument::parse(&args.input)?; *)
RunParse ==
    /\ pc = "run_parse"
    /\ LET r == parse(input_file)
       IN  /\ document' = r.document
           /\ IF r.result.kind = "Ok"
              THEN pc' = "run_filter" /\ UNCHANGED result
              ELSE pc' = "run_done" /\ result' = r.result
    /\ UNCHANGED <<cues, current_timestamp, current_text, in_metadata_block>>
    /\ UNCHANGED <<timestamp_mode, segments, consVars, fmtVars, runVars>>
    /\ UNCHANGED saveVars
    /\ UNCHANGED mainVars

(* should_filter with --no-filter-unknown ignored *)
should_filter_ignores_opt_out(a, doc) ==
    a.filter_unknown \/ doc.has_voice_tags

should_filter(a, doc) ==
    a.filter_unknown \/ (doc.has_voice_tags /\ ~a.no_filter_unknown)

(* the cues handed to consolidate_cues *)
filter_cues(a, doc) ==
    IF should_filter(a, doc)
    THEN SelectSeq(doc.cues, LAMBDA cue : cue.speaker.some)
    ELSE doc.cues

RunFilter ==
    /\ pc = "run_filter"
    /\ cons_cues' = filter_cues(args, document.val)
    /\ pc' = "run_consolidate"
    /\ UNCHANGED <<unknown_speaker_label, current_speaker, current_texts,
                   current_timestamps, first_timestamp>>
    /\ UNCHANGED <<result, timestamp_mode, segments, parserVars, fmtVars, runVars>>
    /\ UNCHANGED saveVars
    /\ UNCHANGED mainVars

RunConsolidate ==
    /\ pc = "run_consolidate"
    /\ segments' = consolidate_cues(cons_cues, args.unknown_speaker, args.include_timestamps)
    /\ pc' = "run_format"
    /\ UNCHANGED <<result, timestamp_mode, parserVars, consVars, fmtVars, runVars>>
    /\ UNCHANGED saveVars
    /\ UNCHANGED mainVars

RunFormat ==
    /\ pc = "run_format"
    /\ markdown' = format_markdown(segments, args.include_timestamps)
    /\ fmt_done' = Len(segments)
    /\ pc' = "run_write"
    /\ UNCHANGED <<result, timestamp_mode, segments, parserVars, consVars, runVars>>
    /\ UNCHANGED saveVars
    /\ UNCHANGED mainVars

(* Args::get_output_path *)
get_output_path(a) == IF a.stdout THEN None ELSE a.output

(* the proper prefixes of content: what a write that fails may have written *)
PartialWrites(content) == {SubSeq(content, 1, n) : n \in 0..(Len(content) - 1)}

(* write_markdown_stdout with write in place of write_all: a short write is
   reported as success *)
write_markdown_stdout_short(content, out) ==
    {[result |-> Ok, stdout |-> out \o w] : w \in PartialWrites(content) \cup {content}}

(* write_markdown_stdout: [result, stdout] for each outcome of write_all *)
write_markdown_stdout(content, out) ==
    {[result |-> Ok, stdout |-> out \o content]}
        \cup {[result |-> Err("IoError"), stdout |-> out \o w] : w \in PartialWrites(content)}

(* write_markdown_file without the test of force *)
write_markdown_file_unguarded(content, file, force, no_clobber) ==
    IF file.some /\ no_clobber THEN {[result |-> Ok, file |-> file]}
    ELSE {[result |-> Ok, file |-> Some(content)]}
            \cup {[result |-> Err(k), file |-> f] :
                    k \in {"PermissionDenied", "WriteError"},
                    f \in {file} \cup {Some(w) : w \in PartialWrites(content)}}

(* write_markdown_file: [result, file] for each outcome of fs::write, file
   being the file at output_path afterwards *)
write_markdown_file(content, file, force, no_clobber) ==
    IF file.some /\ no_clobber THEN {[result |-> Ok, file |-> file]}
    ELSE IF file.some /\ ~force THEN {[result |-> Err("OutputExists"), file |-> file]}
    ELSE {[result |-> Ok, file |-> Some(content)]}
            \cup {[result |-> Err(k), file |-> f] :
                    k \in {"PermissionDenied", "WriteError"},
                    f \in {file} \cup {Some(w) : w \in PartialWrites(content)}}

(* the write stage and the final Ok(()) *)
RunWrite ==
    /\ pc = "run_write"
    /\ IF args.stdout
       THEN \E w \in write_markdown_stdout(markdown, stdout) :
               /\ stdout' = w.stdout
               /\ result' = w.result
               /\ UNCHANGED out_file
       ELSE IF get_output_path(args).some
       THEN \E w \in write_markdown_file(markdown, out_file, args.force, args.no_clobber) :
               /\ out_file' = w.file
               /\ result' = w.result
               /\ UNCHANGED stdout
       ELSE result' = Ok /\ UNCHANGED <<out_file, stdout>>
    /\ pc' = "run_done"
    /\ UNCHANGED <<args, input_file>>
    /\ UNCHANGED <<timestamp_mode, segments, parserVars, consVars, fmtVars>>
    /\ UNCHANGED saveVars
    /\ UNCHANGED mainVars

Next == RunParse \/ RunFilter \/ RunConsolidate \/ RunFormat \/ RunWrite

Init == RunInit

Spec == Init /\ [][Next]_vars

----------------------------------------------------------------------------
(* write_markdown_file called on its own: markdown is its content, out_file
   the file at output_path, args its two flags *)

ContentPool ==
    {<<>>} \cup {format_markdown(<<s>>, mode) : s \in SegmentPool, mode \in Modes}

WriteInit ==
    /\ pc = "write_call"
    /\ result = Pending
    /\ args \in [force : BOOLEAN, no_clobber : BOOLEAN]
    /\ markdown \in ContentPool
    /\ fmt_done = 0
    /\ out_file \in {None, Some(OldContent)}
    /\ input_file = [open |-> "Unopened", lines |-> <<>>]
    /\ stdout = <<>>
    /\ timestamp_mode = "None"
    /\ segments = <<>>
    /\ ParserIdle /\ ConsIdle /\ SaveIdle
    /\ MainIdle

WriteMarkdownFile ==
    /\ pc = "write_call"
    /\ \E w \in write_markdown_file(markdown, out_file, args.force, args.no_clobber) :
          /\ out_file' = w.file
          /\ result' = w.result
    /\ pc' = "write_done"
    /\ UNCHANGED <<args, input_file, stdout>>
    /\ UNCHANGED <<timestamp_mode, segments, parserVars, consVars, fmtVars, saveVars>>
    /\ UNCHANGED mainVars

WriteNext == WriteMarkdownFile

SpecWrite == WriteInit /\ [][WriteNext]_vars

----------------------------------------------------------------------------
(* Args::validate and the derivation of the output path; fs is the file
   system, a function from paths to Option<String>, and the paths of the
   model have no directory part *)

MaxIncrement == 2

(* format!("{}", i) for a natural number *)
RECURSIVE to_string(_)
to_string(i) ==
    LET digit == <<"0", "1", "2", "3", "4", "5", "6", "7", "8", "9">>[(i % 10) + 1]
    IN  IF i < 10 THEN <<digit>> ELSE to_string(i \div 10) \o <<digit>>

(* the index of the dot that starts the extension of a file name, 0 when it
   has none: a leading dot starts no extension *)
extension_dot(path) ==
    LET dots == {i \in 2..Len(path) : path[i] = "."}
    IN  IF dots = {} THEN 0 ELSE CHOOSE i \in dots : \A j \in dots : j <= i

file_stem(path) ==
    IF extension_dot(path) = 0 THEN path ELSE SubSeq(path, 1, extension_dot(path) - 1)

extension(path) ==
    IF extension_dot(path) = 0 THEN <<>>
    ELSE SubSeq(path, extension_dot(path) + 1, Len(path))

with_extension(path, ext) == file_stem(path) \o <<".">> \o ext

exists(fs, path) == path \in DOMAIN fs /\ fs[path] # None

(* the name find_available_path tries at step i *)
new_name(base_path, i) ==
    IF extension(base_path) = <<>>
    THEN file_stem(base_path) \o <<" ", "(">> \o to_string(i) \o <<")">>
    ELSE file_stem(base_path) \o <<" ", "(">> \o to_string(i) \o <<")", ".">>
            \o extension(base_path)

(* find_available_path returning the last free numbered name, not the first *)
find_available_path_last_free(fs, base_path) ==
    IF ~exists(fs, base_path) THEN base_path
    ELSE LET free == {i \in 1..MaxIncrement : ~exists(fs, new_name(base_path, i))}
         IN  IF free = {} THEN base_path
             ELSE new_name(base_path, CHOOSE i \in free : \A j \in free : j <= i)

find_available_path(fs, base_path) ==
    IF ~exists(fs, base_path) THEN base_path
    ELSE LET free == {i \in 1..MaxIncrement : ~exists(fs, new_name(base_path, i))}
         IN  IF free = {} THEN base_path
             ELSE new_name(base_path, CHOOSE i \in free : \A j \in free : i <= j)

derive_output_path(fs, input) ==
    find_available_path(fs, with_extension(input, <<"m", "d">>))

(* Path::canonicalize fails on a path that does not exist; the paths of the
   model are their own canonical form *)
canonicalize(fs, path) == IF exists(fs, path) THEN Some(path) ELSE None

paths_equal(fs, path1, path2) ==
    IF canonicalize(fs, path1).some /\ canonicalize(fs, path2).some
    THEN canonicalize(fs, path1).val = canonicalize(fs, path2).val
    ELSE path1 = path2

(* Args::validate: [result, args], args being self afterwards *)
validate(fs, a) ==
    LET derived ==
            IF a.output = None /\ ~a.stdout
            THEN IF a.no_auto_increment
                 THEN [a EXCEPT !.output = Some(with_extension(a.input, <<"m", "d">>))]
                 ELSE [a EXCEPT !.output = Some(derive_output_path(fs, a.input))]
            ELSE a
    IN  IF derived.output.some /\ paths_equal(fs, derived.input, derived.output.val)
        THEN [result |-> Err("SameFile"), args |-> derived]
        ELSE [result |-> Ok, args |-> derived]

----------------------------------------------------------------------------
(* main: validate, then the stages of run_conversion, on a file system;
   an invocation that has succeeded may be followed by another one with the
   same command line *)

MaxRuns == 2

MD == <<"m", "d">>
InputPath == <<"t", ".", "v", "t", "t">>
ExplicitOutput == <<"o", ".", "m", "d">>

(* the paths of the file system *)
MainPaths ==
    {InputPath, ExplicitOutput, with_extension(InputPath, MD)}
        \cup {new_name(with_extension(InputPath, MD), i) : i \in 1..MaxIncrement}

(* the files at the input path *)
MainInputs ==
    { SimpleVtt,
      File(<<IdLine, TimingLine1, TaggedLine>>),
      [open |-> "NotFound", lines |-> <<>>] }

(* the content of the file at the input path *)
InputContent(file) ==
    IF file.open = "NotFound" THEN None
    ELSE Some(join([i \in 1..Len(file.lines) |-> file.lines[i].line], <<"\n">>))

FileSystems(file) ==
    { fs \in [MainPaths -> {None, Some(OldContent)} \cup {InputContent(file)}] :
        /\ fs[InputPath] = InputContent(file)
        /\ \A p \in MainPaths \ {InputPath} : fs[p] \in {None, Some(OldContent)} }

(* what Args::try_parse returns: clap rejects --force with --no-clobber *)
MainArgv ==
    { a \in [input : {InputPath},
             output : {None, Some(ExplicitOutput), Some(InputPath)},
             stdout : BOOLEAN, no_auto_increment : BOOLEAN,
             force : BOOLEAN, no_clobber : BOOLEAN,
             unknown_speaker : {Unknown}, include_timestamps : {"None"},
             filter_unknown : {FALSE}, no_filter_unknown : {FALSE}] :
        ~(a.force /\ a.no_clobber) }

MainInit ==
    /\ pc = "main_validate"
    /\ result = Pending
    /\ argv \in MainArgv
    /\ args = <<>>
    /\ input_file \in MainInputs
    /\ files \in FileSystems(input_file)
    /\ runs = 0
    /\ out_file = None
    /\ stdout = <<>>
    /\ timestamp_mode = "None"
    /\ segments = <<>>
    /\ ParserIdle /\ ConsIdle /\ FmtIdle /\ SaveIdle

(* main reporting the error of validate without returning *)
MainValidate_goes_on ==
    /\ pc = "main_validate"
    /\ LET v == validate(files, argv)
       IN  /\ args' = v.args
           /\ pc' = "run_parse"
           /\ IF v.result = Ok THEN UNCHANGED result ELSE result' = v.result
    /\ UNCHANGED <<argv, files, runs, input_file, out_file, stdout>>
    /\ UNCHANGED <<timestamp_mode, segments, parserVars, consVars, fmtVars, saveVars>>

(* let mut args = Args::try_parse(); args.validate() *)
MainValidate ==
    /\ pc = "main_validate"
    /\ LET v == validate(files, argv)
       IN  /\ args' = v.args
           /\ IF v.result = Ok
              THEN pc' = "run_parse" /\ UNCHANGED <<result, runs>>
              ELSE pc' = "main_done" /\ result' = v.result /\ runs' = runs + 1
    /\ UNCHANGED <<argv, files, input_file, out_file, stdout>>
    /\ UNCHANGED <<timestamp_mode, segments, parserVars, consVars, fmtVars, saveVars>>

(* the write stage of run_conversion on the file system *)
MainWrite ==
    /\ pc = "run_write"
    /\ IF args.stdout
       THEN \E w \in write_markdown_stdout(markdown, stdout) :
               /\ stdout' = w.stdout
               /\ result' = w.result
               /\ UNCHANGED files
       ELSE IF get_output_path(args).some
       THEN \E w \in write_markdown_file(markdown, files[get_output_path(args).val],
                                         args.force, args.no_clobber) :
               /\ files' = [files EXCEPT ![get_output_path(args).val] = w.file]
               /\ result' = w.result
               /\ UNCHANGED stdout
       ELSE result' = Ok /\ UNCHANGED <<files, stdout>>
    /\ pc' = "run_done"
    /\ UNCHANGED <<args, input_file, out_file, argv, runs>>
    /\ UNCHANGED <<timestamp_mode, segments, parserVars, consVars, fmtVars, saveVars>>

(* run_conversion has returned: the process exits *)
MainExit ==
    /\ pc = "run_done"
    /\ pc' = "main_done"
    /\ runs' = runs + 1
    /\ UNCHANGED <<result, argv, files, runVars>>
    /\ UNCHANGED <<timestamp_mode, segments, parserVars, consVars, fmtVars, saveVars>>

(* the next invocation, with the same command line on the same files *)
MainAgain ==
    /\ pc = "main_done"
    /\ result = Ok
    /\ runs < MaxRuns
    /\ pc' = "main_validate"
    /\ result' = Pending
    /\ args' = <<>>
    /\ stdout' = <<>>
    /\ segments' = <<>>
    /\ cons_cues' = <<>>
    /\ document' = None
    /\ markdown' = <<>>
    /\ fmt_done' = 0
    /\ UNCHANGED <<argv, files, runs, input_file, out_file, timestamp_mode, saveVars>>
    /\ UNCHANGED <<cues, current_timestamp, current_text, in_metadata_block>>
    /\ UNCHANGED <<unknown_speaker_label, current_speaker, current_texts,
                   current_timestamps, first_timestamp>>

MainNext ==
    \/ MainValidate
    \/ RunParse \/ RunFilter \/ RunConsolidate \/ RunFormat
    \/ MainWrite
    \/ MainExit
    \/ MainAgain

SpecMain == MainInit /\ [][MainNext]_vars

----------------------------------------------------------------------------
(* main on a file system in which the input may carry the md extension and
   in which a second name of the input file (a hard link) may exist *)

MdInput == with_extension(InputPath, MD)
HardLink == <<"l", ".", "m", "d">>

LinkPaths == MainPaths \cup {HardLink}

(* the file systems for an input file at the path input: the hard link,
   when it exists, is the input file under another name *)
LinkedFileSystems(file, input) ==
    { fs \in [LinkPaths -> {None, Some(OldContent), InputContent(file)}] :
        /\ fs[input] = InputContent(file)
        /\ fs[HardLink] \in {None, InputContent(file)}
        /\ \A p \in LinkPaths \ {input, HardLink} : fs[p] \in {None, Some(OldContent)} }

LinkArgv ==
    { a \in [input : {InputPath, MdInput},
             output : {None, Some(InputPath), Some(MdInput), Some(HardLink)},
             stdout : BOOLEAN, no_auto_increment : BOOLEAN,
             force : BOOLEAN, no_clobber : BOOLEAN,
             unknown_speaker : {Unknown}, include_timestamps : {"None"},
             filter_unknown : {FALSE}, no_filter_unknown : {FALSE}] :
        ~(a.force /\ a.no_clobber) }

LinkInit ==
    /\ pc = "main_validate"
    /\ result = Pending
    /\ argv \in LinkArgv
    /\ args = <<>>
    /\ input_file \in {SimpleVtt, File(<<IdLine, TimingLine1, TaggedLine>>)}
    /\ files \in LinkedFileSystems(input_file, argv.input)
    /\ runs = 0
    /\ out_file = None
    /\ stdout = <<>>
    /\ timestamp_mode = "None"
    /\ segments = <<>>
    /\ ParserIdle /\ ConsIdle /\ FmtIdle /\ SaveIdle

(* the names under which the file at path is reached: Path::canonicalize
   gives each name of a hard-linked file as its own canonical form, and
   fs::write through one name changes the file under all of them *)
names_of(fs, input, path) ==
    IF path \in {input, HardLink} /\ fs[HardLink] # None
    THEN {input, HardLink}
    ELSE {path}

(* the write stage of run_conversion on this file system *)
LinkWrite ==
    /\ pc = "run_write"
    /\ IF args.stdout
       THEN \E w \in write_markdown_stdout(markdown, stdout) :
               /\ stdout' = w.stdout
               /\ result' = w.result
               /\ UNCHANGED files
       ELSE IF get_output_path(args).some
       THEN \E w \in write_markdown_file(markdown, files[get_output_path(args).val],
                                         args.force, args.no_clobber) :
               /\ files' = [p \in DOMAIN files |->
                              IF p \in names_of(files, argv.input, get_output_path(args).val)
                              THEN w.file ELSE files[p]]
               /\ result' = w.result
               /\ UNCHANGED stdout
       ELSE result' = Ok /\ UNCHANGED <<files, stdout>>
    /\ pc' = "run_done"
    /\ UNCHANGED <<args, input_file, out_file, argv, runs>>
    /\ UNCHANGED <<timestamp_mode, segments, parserVars, consVars, fmtVars, saveVars>>

LinkNext ==
    \/ MainValidate
    \/ RunParse \/ RunFilter \/ RunConsolidate \/ RunFormat
    \/ LinkWrite
    \/ MainExit

SpecSameFile == LinkInit /\ [][LinkNext]_vars

----------------------------------------------------------------------------
(* Properties *)

(* the concatenation of a sequence of strings *)
RECURSIVE Concat(_)
Concat(strs) == IF strs = <<>> THEN <<>> ELSE Head(strs) \o Concat(Tail(strs))

SimpleMarkdown ==
    <<"*", "*">> \o Alice \o <<":", "*", "*", " ">> \o Hello \o <<" ">> \o World
        \o <<"\n", "\n">>

(* C1: for the input file SIMPLE_VTT, placeholder "Unknown" and policy none,
   whatever the other flags, the rendered Markdown is exactly
   "**Alice:** Hello world\n\n": parsing succeeds and the formatter's result
   is that string. *)
C1_SimpleRoundTrip ==
    (/\ input_file = SimpleVtt
     /\ args.unknown_speaker = Unknown
     /\ args.include_timestamps = "None"
     /\ pc \in {"run_write", "run_done"})
    => markdown = SimpleMarkdown

(* C1 witness: such a run has ended and has written the string to stdout *)
C1_Witness ==
    /\ input_file = SimpleVtt
    /\ args.unknown_speaker = Unknown
    /\ args.include_timestamps = "None"
    /\ pc = "run_done"
    /\ result = Ok
    /\ args.stdout
    /\ stdout = SimpleMarkdown

(* the timestamp a paragraph shows under a policy: the empty string when it
   shows none *)
ShownStamp(segment, mode) ==
    CASE mode = "First" /\ segment.timestamp.some ->
            <<"[">> \o segment.timestamp.val \o <<"]", " ">>
      [] mode = "Each" /\ Len(segment.timestamps) >= 1 ->
            <<"[">> \o Head(segment.timestamps) \o <<"]", " ">>
      [] OTHER -> <<>>

Layout(segment, mode) ==
    Concat(<< ShownStamp(segment, mode), <<"*", "*">>, segment.speaker,
              <<":", "*", "*", " ">>, segment.text, <<"\n", "\n">> >>)

(* C5: the formatter's result is, for the segments iterated so far and in
   their order, one paragraph each in the layout of the policy, every
   paragraph ended by two newlines, and nothing else; the whole function
   returns the same.  Under Each the first element of timestamps is shown. *)
C5_FormatterLayout ==
    /\ fmt_done = Len(segments)
    /\ markdown = Concat([i \in 1..Len(segments) |-> Layout(segments[i], timestamp_mode)])
    /\ pc = "fmt_done" => format_markdown(segments, timestamp_mode) = markdown

(* C5 witness: under Each a segment whose list is [t2, t1] and whose
   timestamp field is t1 was rendered with t2, followed by a segment with an
   empty list *)
C5_Witness ==
    /\ pc = "fmt_done"
    /\ timestamp_mode = "Each"
    /\ Len(segments) = 2
    /\ segments[1].timestamps = <<TS2, TS1>>
    /\ segments[1].timestamp = Some(TS1)
    /\ segments[2].timestamps = <<>>
    /\ SubSeq(markdown, 1, 14) = <<"[">> \o TS2 \o <<"]">>

(* The runs of a cue sequence under a placeholder label *)

EffectiveName(cue, label) == IF cue.speaker.some THEN cue.speaker.val ELSE label

HasText(cue) == \E i \in 1..Len(cue.text) : ~IsWs(cue.text[i])

(* the cues that are not empty or whitespace-only *)
Spoken(cs) == SelectSeq(cs, HasText)

(* the indices at which a maximal run of one effective name starts *)
RunStarts(cs, label) ==
    {i \in 1..Len(cs) :
        i = 1 \/ EffectiveName(cs[i], label) # EffectiveName(cs[i - 1], label)}

RunCount(cs, label) == Cardinality(RunStarts(cs, label))

RunStart(cs, label, k) ==
    CHOOSE i \in RunStarts(cs, label) :
        Cardinality({j \in RunStarts(cs, label) : j <= i}) = k

(* the cues of the k-th maximal run *)
Run(cs, label, k) ==
    SubSeq(cs, RunStart(cs, label, k),
           IF k = RunCount(cs, label) THEN Len(cs) ELSE RunStart(cs, label, k + 1) - 1)

(* C2 as stated: the number of segments is the number of maximal runs of
   consecutive cues of the whole cue sequence sharing an effective name. *)
C2_Original_RunsOfAllCues ==
    pc = "cons_done" => Len(segments) = RunCount(cons_cues, unknown_speaker_label)

(* C2 amended: the number of segments returned is the number of maximal runs
   of one effective speaker name among the cues whose text is not empty or
   whitespace-only, the k-th segment carries the k-th run's name, so two
   runs of one speaker separated by a cue of another (A, B, A) stay apart;
   the function as a whole returns what its loop built. *)
C2_SegmentsAreRunsOfSpokenCues ==
    pc = "cons_done" =>
        LET f == Spoken(cons_cues)
        IN  /\ Len(segments) = RunCount(f, unknown_speaker_label)
            /\ \A k \in 1..Len(segments) :
                  segments[k].speaker =
                      EffectiveName(f[RunStart(f, unknown_speaker_label, k)],
                                    unknown_speaker_label)
            /\ consolidate_cues(cons_cues, unknown_speaker_label, timestamp_mode) = segments

(* C2 witness: Alice, an untagged cue, Alice, all with text, under the label
   "Unknown" gave three segments *)
C2_Witness ==
    /\ pc = "cons_done"
    /\ unknown_speaker_label = Unknown
    /\ Len(cons_cues) = 3
    /\ \A i \in 1..3 : HasText(cons_cues[i])
    /\ cons_cues[1].speaker = Some(Alice)
    /\ cons_cues[2].speaker = None
    /\ cons_cues[3].speaker = Some(Alice)
    /\ Len(segments) = 3
    /\ segments[1].speaker = Alice /\ segments[3].speaker = Alice

(* entries joined by exactly one space *)
RECURSIVE Spaced(_)
Spaced(entries) ==
    IF entries = <<>> THEN <<>>
    ELSE IF Len(entries) = 1 THEN entries[1]
    ELSE entries[1] \o <<" ">> \o Spaced(Tail(entries))

(* the texts trimmed, the empty ones dropped *)
TrimmedEntries(texts) ==
    SelectSeq([i \in 1..Len(texts) |-> trim(texts[i])], LAMBDA t : t # <<>>)

TextsOf(cs) == [i \in 1..Len(cs) |-> cs[i].text]

(* C3: every segment's text is the texts of the cues of its run, each
   trimmed, joined in cue order by exactly one space, with no leading or
   trailing space; and join_texts on the texts of any cue sequence, blank
   ones included, trims each entry, skips the empty ones and joins the rest
   by one space. *)
C3_SegmentText ==
    /\ join_texts(TextsOf(cons_cues)) = Spaced(TrimmedEntries(TextsOf(cons_cues)))
    /\ pc = "cons_done" =>
          LET f == Spoken(cons_cues)
          IN  \A k \in 1..Len(segments) :
                 /\ k <= RunCount(f, unknown_speaker_label)
                 /\ segments[k].text =
                        Spaced(TrimmedEntries(TextsOf(Run(f, unknown_speaker_label, k))))
                 /\ ~IsWs(Head(segments[k].text))
                 /\ ~IsWs(segments[k].text[Len(segments[k].text)])

(* C3 witness: two consecutive Alice cues "Hello" and " world " gave one
   segment "Hello world" *)
C3_Witness ==
    /\ pc = "cons_done"
    /\ Len(cons_cues) = 2
    /\ cons_cues[1].speaker = Some(Alice) /\ cons_cues[1].text = Hello
    /\ cons_cues[2].speaker = Some(Alice) /\ cons_cues[2].text = <<" ">> \o World \o <<" ">>
    /\ Len(segments) = 1
    /\ segments[1].text = Hello \o <<" ">> \o World

(* the timestamps of the cues that have one, in cue order *)
StampsOf(cs) ==
    LET stamped == SelectSeq(cs, LAMBDA c : c.timestamp.some)
    IN  [i \in 1..Len(stamped) |-> stamped[i].timestamp.val]

(* C4: for every segment returned, a run being the cues consolidated into
   it: under None the timestamp field is absent; under First it is the
   timestamp of the run's first cue, absent when that cue has none; under
   Each it is absent and the timestamps list holds, in cue order, the
   timestamps of the cues of the run that have one. *)
C4_SegmentTimestampByPolicy ==
    pc = "cons_done" =>
        LET f == Spoken(cons_cues)
        IN  \A k \in 1..Len(segments) :
               /\ k <= RunCount(f, unknown_speaker_label)
               /\ timestamp_mode = "None" => segments[k].timestamp = None
               /\ timestamp_mode = "First" =>
                     segments[k].timestamp = Head(Run(f, unknown_speaker_label, k)).timestamp
               /\ timestamp_mode = "Each" =>
                     /\ segments[k].timestamp = None
                     /\ segments[k].timestamps = StampsOf(Run(f, unknown_speaker_label, k))

(* C4 witness: under First, a run of three cues whose first has no timestamp
   and whose later ones have t1 and t2 gave a segment without timestamp *)
C4_Witness ==
    /\ pc = "cons_done"
    /\ timestamp_mode = "First"
    /\ Len(cons_cues) = 3
    /\ cons_cues[1].timestamp = None
    /\ Len(segments) = 1
    /\ segments[1].timestamp = None
    /\ segments[1].timestamps = <<TS1, TS2>>

(* The order of timestamp strings: at the first position where two strings
   differ, the smaller character decides *)
CharRank(c) ==
    IF c = "." THEN 0 - 1
    ELSE IF c = ":" THEN 10
    ELSE CHOOSE n \in 0..9 : <<"0", "1", "2", "3", "4", "5", "6", "7", "8", "9">>[n + 1] = c

StringBefore(a, b) ==
    \E k \in 1..Len(a) :
        /\ k <= Len(b)
        /\ \A j \in 1..(k - 1) : a[j] = b[j]
        /\ CharRank(a[k]) < CharRank(b[k])

(* cue c must come before cue d *)
CueBefore(c, d) ==
    /\ c.timestamp.some
    /\ d.timestamp.some => StringBefore(c.timestamp.val, d.timestamp.val)

WithStamp(cs, t) == SelectSeq(cs, LAMBDA c : c.timestamp = t)

(* C6: the cues of the returned document are the cues the scan emitted,
   reordered: ascending by timestamp string, cues without timestamp last,
   and the cues of one timestamp (and those without) in their source
   order. *)
C6_CuesSortedStably ==
    (pc = "parse_done" /\ result = Ok) =>
        LET out == document.val.cues
        IN  /\ Len(out) = Len(cues)
            /\ \A i, j \in 1..Len(out) : i < j => ~CueBefore(out[j], out[i])
            /\ \A i \in 1..Len(cues) :
                  WithStamp(out, cues[i].timestamp) = WithStamp(cues, cues[i].timestamp)

(* C6 witness: the scan emitted a cue at t2 and then one at t1, and the
   document holds them as t1, t2 *)
C6_Witness ==
    /\ pc = "parse_done"
    /\ result = Ok
    /\ Len(cues) = 2
    /\ cues[1].timestamp = Some(TS2)
    /\ cues[2].timestamp = Some(TS1)
    /\ document.val.cues = <<cues[2], cues[1]>>

(* a line that, once its leading whitespace is removed, starts with the six
   characters WEBVTT *)
BeginsWithWEBVTT(line) ==
    \E k \in 0..Len(line) :
        /\ \A j \in 1..k : IsWs(line[j])
        /\ k + 6 <= Len(line)
        /\ [j \in 1..6 |-> line[k + j]] = <<"W", "E", "B", "V", "T", "T">>

AllLinesOk(file) == \A i \in 1..Len(file.lines) : file.lines[i].ok

(* the lines of a file that are not empty *)
NonEmptyLines(file) == SelectSeq(file.lines, LAMBDA item : item.line # <<>>)

HeaderRejected == result = ParseError("Missing WEBVTT header")

(* C7 as stated: a readable input passes the header check exactly when its
   first non-empty line, trimmed, begins with WEBVTT; in every other case
   parse fails with a format error and returns no document. *)
C7_Original_FirstNonEmptyLine ==
    (pc # "run_parse" /\ input_file.open = "Ok" /\ AllLinesOk(input_file)) =>
        IF /\ NonEmptyLines(input_file) # <<>>
           /\ BeginsWithWEBVTT(Head(NonEmptyLines(input_file)).line)
        THEN result.kind # "ParseError" /\ document.some
        ELSE result.kind = "ParseError" /\ document = None

(* C7 amended: a readable input passes the header check exactly when its
   first line, blank or not, trimmed, begins with WEBVTT; when the first
   line does not, parse fails with a format error and returns no document,
   and when it does, parse fails with no format error. *)
C7_HeaderIsFirstLine ==
    (/\ pc # "run_parse"
     /\ input_file.open = "Ok"
     /\ input_file.lines # <<>>
     /\ Head(input_file.lines).ok) =>
        IF BeginsWithWEBVTT(Head(input_file.lines).line)
        THEN /\ result.kind # "ParseError"
             /\ AllLinesOk(input_file) => document.some
        ELSE HeaderRejected /\ document = None /\ pc = "run_done"

(* C7 witness: a file whose first line is blank and whose second line is
   WEBVTT, followed by a cue, was rejected without a document *)
C7_Witness ==
    /\ pc = "run_done"
    /\ input_file = File(<<<<>>, WEBVTT, TimingLine1, TaggedLine>>)
    /\ HeaderRejected
    /\ document = None

(* C8: the failures of parse by cause.  A missing path gives FileNotFound
   (exit code 66), a denied open PermissionDenied (77), any other failed
   open and any failed read IoError (74); an input without any line gives
   ParseError "Empty file" and a first line failing the header check
   ParseError "Missing WEBVTT header" (both 65, never an I/O or usage kind);
   the four kinds have four exit codes and the two reasons differ. *)
C8_FailureClassification ==
    /\ pc = "parse_done" =>
        /\ input_file.open = "NotFound" =>
              result.kind = "FileNotFound" /\ exit_code(result.kind) = 66
        /\ input_file.open = "PermissionDenied" =>
              result.kind = "PermissionDenied" /\ exit_code(result.kind) = 77
        /\ input_file.open = "Other" =>
              result.kind = "IoError" /\ exit_code(result.kind) = 74
        /\ (input_file.open = "Ok" /\ input_file.lines = <<>>) =>
              result = ParseError("Empty file") /\ exit_code(result.kind) = 65
        /\ (input_file.lines # <<>> /\ ~AllLinesOk(input_file)) =>
              result.kind = "IoError" /\ exit_code(result.kind) = 74
        /\ (/\ input_file.lines # <<>>
            /\ Head(input_file.lines).ok
            /\ ~BeginsWithWEBVTT(Head(input_file.lines).line)) =>
              /\ result = ParseError("Missing WEBVTT header")
              /\ exit_code(result.kind) = 65
              /\ result.kind \notin {"IoError", "UsageError", "FileNotFound", "PermissionDenied"}
        /\ result.kind \in {"Ok", "FileNotFound", "PermissionDenied", "IoError", "ParseError"}
        /\ result.kind = "Ok" =>
              /\ input_file.open = "Ok"
              /\ AllLinesOk(input_file)
              /\ input_file.lines # <<>>
    /\ \A k1, k2 \in {"FileNotFound", "PermissionDenied", "IoError", "ParseError"} :
          k1 # k2 => exit_code(k1) # exit_code(k2)

(* C8 witness: the parse of a missing path has ended with FileNotFound *)
C8_Witness ==
    /\ pc = "parse_done"
    /\ input_file.open = "NotFound"
    /\ result.kind = "FileNotFound"
    /\ exit_code(result.kind) = 66

(* C9: every cue the scan has emitted, and every cue of the returned
   document, has a text with a character that is not whitespace; and once
   the header has passed, a parse whose reads all succeed returns Ok: a cue
   block that cleans to nothing is dropped without an error. *)
C9_CueTextNeverBlank ==
    /\ \A i \in 1..Len(cues) : HasText(cues[i])
    /\ document.some => \A i \in 1..Len(document.val.cues) : HasText(document.val.cues[i])
    /\ (/\ pc = "parse_done"
        /\ input_file.lines # <<>>
        /\ AllLinesOk(input_file)
        /\ BeginsWithWEBVTT(Head(input_file.lines).line)) => result = Ok

(* C9 witness: a file of a header, a timing line and a voice tag around one
   space was parsed into a document without cues *)
C9_Witness ==
    /\ pc = "parse_done"
    /\ input_file.lines = <<LineOk(WEBVTT), LineOk(TimingLine1), LineOk(EmptyTagLine)>>
    /\ result = Ok
    /\ document.val.cues = <<>>

(* C10: in the returned document has_voice_tags is true exactly when one of
   its cues has a speaker. *)
C10_HasVoiceTags ==
    (pc = "parse_done" /\ result = Ok) =>
        (document.val.has_voice_tags
            <=> \E i \in 1..Len(document.val.cues) : document.val.cues[i].speaker.some)

(* C10 witness: a document whose voice tags are one whose name is "@" and
   one whose cue was dropped as empty has a cue and has_voice_tags false *)
C10_Witness ==
    /\ pc = "parse_done"
    /\ result = Ok
    /\ input_file.lines = <<LineOk(WEBVTT), LineOk(TimingLine1), LineOk(AnonymousLine),
                            LineOk(TimingLine2), LineOk(EmptyTagLine)>>
    /\ Len(document.val.cues) = 1
    /\ ~document.val.has_voice_tags

(* the cues of cs that have a speaker, in their order *)
RECURSIVE Speakered(_)
Speakered(cs) ==
    IF cs = <<>> THEN <<>>
    ELSE (IF Head(cs).speaker = None THEN <<>> ELSE <<Head(cs)>>) \o Speakered(Tail(cs))

FilterActive ==
    args.filter_unknown \/ (document.val.has_voice_tags /\ ~args.no_filter_unknown)

AfterFilter == pc \in {"run_consolidate", "run_format", "run_write", "run_done"} /\ document.some

AfterConsolidate == pc \in {"run_format", "run_write", "run_done"} /\ document.some

(* C11: the filter is active exactly when --filter-unknown is set, or the
   document has voice tags and --no-filter-unknown is not set.  When active
   the consolidator receives the cues that have a speaker, in their order,
   the texts of the segments are the texts of those cues only, and the cues
   Alice, none, Alice give one segment; when inactive the consolidator
   receives every cue. *)
C11_UnknownSpeakerFilter ==
    /\ AfterFilter =>
          IF FilterActive
          THEN /\ cons_cues = Speakered(document.val.cues)
               /\ \A i \in 1..Len(cons_cues) : cons_cues[i].speaker.some
          ELSE cons_cues = document.val.cues
    /\ (AfterConsolidate /\ FilterActive) =>
          /\ Spaced(TextsOf(segments)) = Spaced(TextsOf(Speakered(document.val.cues)))
          /\ (/\ Len(document.val.cues) = 3
              /\ document.val.cues[1].speaker = Some(Alice)
              /\ document.val.cues[2].speaker = None
              /\ document.val.cues[3].speaker = Some(Alice)) =>
                 /\ Len(segments) = 1
                 /\ segments[1].speaker = Alice
                 /\ segments[1].text = Spaced(<<document.val.cues[1].text,
                                                document.val.cues[3].text>>)

(* C11 witness: a document of the cues Alice, none, Alice was converted with
   the filter active by the voice tags alone into one Alice segment *)
C11_Witness ==
    /\ pc = "run_done"
    /\ document.some
    /\ ~args.filter_unknown /\ ~args.no_filter_unknown
    /\ Len(document.val.cues) = 3
    /\ document.val.cues[2].speaker = None
    /\ Len(cons_cues) = 2
    /\ Len(segments) = 1
    /\ segments[1].speaker = Alice

(* C12 as stated: cleaning a cleaned text again changes nothing. *)
C12_Original_CleanIdempotent ==
    save_cleaned_text.some =>
        clean_text(save_cleaned_text.val) = save_cleaned_text.val

(* pat occurs in s *)
Contains(s, pat) ==
    \E i \in 1..(Len(s) - Len(pat) + 1) : SubSeq(s, i, i + Len(pat) - 1) = pat

(* the six entities clean_text decodes *)
Entities ==
    { <<"&", "a", "m", "p", ";">>, <<"&", "l", "t", ";">>, <<"&", "g", "t", ";">>,
      <<"&", "q", "u", "o", "t", ";">>, <<"&", "#", "3", "9", ";">>,
      <<"&", "#", "x", "2", "7", ";">> }

HasEntity(s) == \E e \in Entities : Contains(s, e)

(* s holds a tag: "<", one or more characters other than ">", then ">" *)
HasTag(s) ==
    \E i, j \in 1..Len(s) :
        /\ i + 1 < j
        /\ s[i] = "<"
        /\ s[j] = ">"
        /\ \A k \in (i + 1)..(j - 1) : s[k] # ">"

(* C12 amended: cleaning a cleaned text again changes nothing exactly when
   the cleaned text holds none of the six entities and no tag; in particular
   it changes nothing for every text without "&". *)
C12_CleanIdempotentWithoutMarkup ==
    save_cleaned_text.some =>
        LET once == save_cleaned_text.val
        IN  /\ (clean_text(once) = once) <=> (~HasEntity(once) /\ ~HasTag(once))
            /\ ~Contains(save_text, <<"&">>) => clean_text(once) = once

(* C12 witness: the text "&amp; b" was cleaned to "& b", which a second
   cleaning leaves as it is *)
C12_Witness ==
    /\ save_cleaned_text.some
    /\ save_text = <<"&", "a", "m", "p", ";", " ", "b">>
    /\ save_cleaned_text.val = <<"&", " ", "b">>
    /\ clean_text(save_cleaned_text.val) = save_cleaned_text.val

(* s without its "@" characters *)
WithoutAt(s) == SelectSeq(s, LAMBDA c : c # "@")

(* s from its first to its last character that is not whitespace *)
Core(s) ==
    LET inked == {i \in 1..Len(s) : ~IsWs(s[i])}
    IN  IF inked = {} THEN <<>>
        ELSE SubSeq(s, CHOOSE i \in inked : \A j \in inked : i <= j,
                       CHOOSE i \in inked : \A j \in inked : j <= i)

(* the characters the claim lists *)
ListedSpecials ==
    {"*", "_", "#", "[", "]", "(", ")", "{", "}", "!", ">", "|", "BACKTICK", "\\"}

(* s with one backslash before every listed character *)
Backslashed(s) ==
    Concat([i \in 1..Len(s) |->
                IF s[i] \in ListedSpecials THEN <<"\\", s[i]>> ELSE <<s[i]>>])

(* the speaker of the pushed cue is what the claim gives for the bare name *)
SpeakerIs(bare) ==
    /\ cues[1].speaker = (IF bare = <<>> THEN None ELSE Some(Backslashed(bare)))
    /\ cues[1].speaker.some =>
          /\ cues[1].speaker.val # <<>>
          /\ ~Contains(cues[1].speaker.val, <<"@">>)
          /\ ~IsWs(cues[1].speaker.val[1])
          /\ ~IsWs(cues[1].speaker.val[Len(cues[1].speaker.val)])

Pushed == pc = "save_done" /\ cues # <<>>

(* C13 as stated: the speaker is None when the captured name without "@",
   trimmed, is empty, and otherwise that name with every listed character
   behind one backslash and every other character unchanged. *)
C13_Original_SanitizedSpeaker ==
    (Pushed /\ save_speaker.some) => SpeakerIs(Core(WithoutAt(save_speaker.val)))

(* C13 amended: the speaker is None when the captured name without "@",
   brought to NFC and trimmed, is empty, and otherwise that normalized name
   with every listed character behind one backslash and every other
   character unchanged; it is never empty, holds no "@" and neither starts
   nor ends with whitespace.  A cue without a captured name has no speaker. *)
C13_SanitizedSpeaker ==
    Pushed =>
        IF save_speaker.some
        THEN SpeakerIs(Core(nfc(WithoutAt(save_speaker.val))))
        ELSE cues[1].speaker = None

(* C13 witness: the name John*Doe gave the speaker John\*Doe *)
C13_Witness ==
    /\ Pushed
    /\ save_speaker = Some(<<"J", "o", "h", "n", "*", "D", "o", "e">>)
    /\ cues[1].speaker = Some(<<"J", "o", "h", "n", "\\", "*", "D", "o", "e">>)

Exists == out_file # None

(* C14 as stated: an existing file with no_clobber gives success and no
   change; an existing file with neither flag gives OutputExists (exit code
   73) and no change; an existing file with force alone, or a missing file,
   gives a file whose content is the content written. *)
C14_Original_OverwriteGuard ==
    [][pc = "write_call" =>
          /\ (Exists /\ args.no_clobber) => (result' = Ok /\ out_file' = out_file)
          /\ (Exists /\ ~args.no_clobber /\ ~args.force) =>
                /\ result'.kind = "OutputExists"
                /\ exit_code(result'.kind) = 73
                /\ out_file' = out_file
          /\ ((Exists /\ args.force /\ ~args.no_clobber) \/ ~Exists) =>
                out_file' = Some(markdown)]_vars

(* C14 amended: as stated, except that with an existing file and force
   alone, or a missing file, the call either succeeds and the file's content
   is the content written, or fails with PermissionDenied or WriteError; an
   existing file is modified only when force is set and no_clobber is not. *)
C14_OverwriteGuard ==
    [][pc = "write_call" =>
          /\ (Exists /\ args.no_clobber) => (result' = Ok /\ out_file' = out_file)
          /\ (Exists /\ ~args.no_clobber /\ ~args.force) =>
                /\ result'.kind = "OutputExists"
                /\ exit_code(result'.kind) = 73
                /\ out_file' = out_file
          /\ ((Exists /\ args.force /\ ~args.no_clobber) \/ ~Exists) =>
                \/ result' = Ok /\ out_file' = Some(markdown)
                \/ result'.kind \in {"PermissionDenied", "WriteError"}
          /\ (Exists /\ out_file' # out_file) => (args.force /\ ~args.no_clobber)]_vars

(* C14 witness: under no_clobber an existing file was left as it was and
   the call returned success *)
C14_Witness ==
    /\ pc = "write_done"
    /\ args.no_clobber
    /\ result = Ok
    /\ markdown # OldContent
    /\ out_file = Some(OldContent)

(* the whole rendered content is at the destination of the run *)
Written == IF args.stdout THEN stdout = markdown ELSE out_file = Some(markdown)

Failed == result.kind \notin {"Ok", "Pending"}

(* C15 as stated: a run that has ended has written the whole rendered
   content to its destination or has ended with an error. *)
C15_Original_WriteOrError ==
    pc = "run_done" => (Written \/ Failed)

(* C15 amended: a run that has ended has written the whole rendered content
   to its destination, or has ended with an error, or was given --no-clobber
   and an output file that exists, which it has left as it was while
   reporting success. *)
C15_WriteOrErrorOrSkip ==
    pc = "run_done" =>
        \/ Written /\ result = Ok
        \/ Failed
        \/ /\ result = Ok
           /\ ~args.stdout
           /\ args.no_clobber
           /\ out_file = Some(OldContent)
           /\ stdout = <<>>

(* C15 witness: a run ended with success and its output file holds the
   rendered paragraphs *)
C15_Witness ==
    /\ pc = "run_done"
    /\ result = Ok
    /\ ~args.stdout
    /\ markdown # <<>>
    /\ out_file = Some(markdown)

(* the stage that precedes each stage of an invocation *)
StageBefore(stage) ==
    CASE stage = "run_parse" -> {"main_validate"}
      [] stage = "run_filter" -> {"run_parse"}
      [] stage = "run_consolidate" -> {"run_filter"}
      [] stage = "run_format" -> {"run_consolidate"}
      [] stage = "run_write" -> {"run_format"}
      [] stage = "run_done" -> {"run_parse", "run_write"}
      [] stage = "main_done" -> {"main_validate", "run_done"}
      [] stage = "main_validate" -> {"main_done"}

(* the input was read, parsed, filtered, consolidated and rendered, and no
   stage has failed *)
Rendered ==
    /\ result = Pending
    /\ document.some
    /\ document = parse(input_file).document
    /\ cons_cues = Speakered(document.val.cues) \/ cons_cues = document.val.cues
    /\ segments = consolidate_cues(cons_cues, args.unknown_speaker, args.include_timestamps)
    /\ markdown = format_markdown(segments, args.include_timestamps)

(* C16: within an invocation the stages follow one another in order; the
   files and standard output change only in the one step of the write
   stage, which is taken after the input was read, parsed, filtered,
   consolidated and rendered without error; a failure of validation or of
   parsing ends the process with that error, with the files and standard
   output as they were; with --stdout no file ever changes. *)
C16_StageOrdering ==
    [][/\ pc' # pc => pc \in StageBefore(pc')
       /\ ((files' # files \/ stdout' # stdout) /\ pc # "main_done") =>
             (pc = "run_write" /\ pc' = "run_done" /\ Rendered)
       /\ (pc = "main_validate" /\ pc' = "main_done") =>
             (result'.kind = "SameFile" /\ files' = files /\ stdout' = stdout)
       /\ (pc = "main_validate" /\ pc' # "main_done") => result' = Pending
       /\ (pc = "run_parse" /\ pc' = "run_done") =>
             /\ result' = parse(input_file).result
             /\ result'.kind \in {"ParseError", "FileNotFound", "PermissionDenied", "IoError"}
             /\ document' = None
       /\ (pc = "run_parse" /\ pc' # "run_done") => result' = Pending
       /\ pc = "run_done" => (result' = result /\ files' = files /\ stdout' = stdout)
       /\ pc = "main_done" => files' = files
       /\ argv.stdout => files' = files]_vars

(* C16 witness: the process ended with the parse error of a file without
   header; the derived output path does not exist and nothing was printed *)
C16_Witness ==
    /\ pc = "main_done"
    /\ result = ParseError("Missing WEBVTT header")
    /\ args.output = Some(with_extension(InputPath, MD))
    /\ files[with_extension(InputPath, MD)] = None
    /\ stdout = <<>>

(* the paths tried for the input t.vtt: t.md, t (1).md, t (2).md, ... *)
Candidate(i) ==
    IF i = 0 THEN <<"t", ".", "m", "d">>
    ELSE <<"t", " ", "(", <<"1", "2", "3", "4", "5", "6", "7", "8", "9">>[i], ")",
           ".", "m", "d">>

FreeCandidates == {i \in 0..MaxIncrement : files[Candidate(i)] = None}

FirstFree == CHOOSE i \in FreeCandidates : \A j \in FreeCandidates : i <= j

AutoIncrement == argv.output = None /\ ~argv.stdout /\ ~argv.no_auto_increment

InRunConversion ==
    pc \in {"run_parse", "run_filter", "run_consolidate", "run_format", "run_write"}

(* every file that existed is as it was *)
ExistingKept == \A p \in MainPaths : files[p] # None => files'[p] = files[p]

(* C17: with no output path, no --stdout and no --no-auto-increment the
   output path is the first of t.md, t (1).md, t (2).md, ... that does not
   exist, and t.md when all exist; the write of such a run, while a path is
   free, never fails with OutputExists, modifies no existing file and on
   success creates the file at that path, so that successive conversions
   create distinct files.  A given output path, and the path derived under
   --no-auto-increment, is used as it is, and when it exists and neither
   --force nor --no-clobber is set the run fails with OutputExists and the
   file is unchanged. *)
C17_AutoIncrement ==
    [][/\ (InRunConversion /\ AutoIncrement) =>
             args.output = Some(IF FreeCandidates = {} THEN Candidate(0)
                                ELSE Candidate(FirstFree))
       /\ (pc = "run_write" /\ AutoIncrement /\ FreeCandidates # {}) =>
             /\ result'.kind # "OutputExists"
             /\ ExistingKept
             /\ result' = Ok =>
                   /\ files[args.output.val] = None
                   /\ files' = [files EXCEPT ![args.output.val] = Some(markdown)]
       /\ (InRunConversion /\ ~argv.stdout /\ ~AutoIncrement) =>
             args.output = (IF argv.output.some THEN argv.output ELSE Some(Candidate(0)))
       /\ (/\ pc = "run_write" /\ ~argv.stdout /\ ~AutoIncrement
           /\ files[args.output.val] # None /\ ~argv.force /\ ~argv.no_clobber) =>
             (result'.kind = "OutputExists" /\ files' = files)]_vars

(* C17 witness: two successive conversions under auto-increment have created
   t.md and then t (1).md, and t (2).md does not exist *)
C17_Witness ==
    /\ pc = "main_done"
    /\ runs = 2
    /\ result = Ok
    /\ AutoIncrement
    /\ markdown # <<>>
    /\ files[Candidate(0)] = Some(markdown)
    /\ files[Candidate(1)] = Some(markdown)
    /\ files[Candidate(2)] = None

(* the scanner has just processed a line that was read without error *)
Scanned == pc = "parse_scan" /\ pc' = "parse_scan" /\ input_file' # input_file

(* the line the scanner has just processed *)
ScannedLine == input_file'.lines[Len(input_file'.lines)].line

IsBlank(line) == \A i \in 1..Len(line) : IsWs(line[i])

IsTimingLine(line) == timestamp_regex(line).some

(* line, after its leading whitespace, starts with word *)
LeadsWith(line, word) ==
    \E k \in 0..Len(line) :
        /\ \A j \in 1..k : IsWs(line[j])
        /\ k + Len(word) <= Len(line)
        /\ SubSeq(line, k + 1, k + Len(word)) = word

IsMetadataMarker(line) ==
    \/ LeadsWith(line, <<"N", "O", "T", "E">>)
    \/ LeadsWith(line, <<"S", "T", "Y", "L", "E">>)
    \/ LeadsWith(line, <<"R", "E", "G", "I", "O", "N">>)

(* the line was appended to the text buffer and nothing else changed *)
AppendedOnly ==
    /\ current_text' = Append(current_text, ScannedLine)
    /\ UNCHANGED <<cues, current_timestamp, in_metadata_block, document>>

(* C18 as stated: while a timestamp is open, every line that is not blank
   and is not a timing line is appended to the text buffer, and changes
   nothing else. *)
C18_Original_TextAccumulation ==
    [][(/\ Scanned
        /\ current_timestamp.some
        /\ ~IsBlank(ScannedLine)
        /\ ~IsTimingLine(ScannedLine)) => AppendedOnly]_vars

(* C18 amended: while a timestamp is open and no metadata block is open,
   every line that is not blank, is not a timing line and does not begin
   with NOTE, STYLE or REGION is appended verbatim at the end of the text
   buffer, and changes nothing else. *)
C18_TextAccumulation ==
    [][(/\ Scanned
        /\ current_timestamp.some
        /\ ~in_metadata_block
        /\ ~IsBlank(ScannedLine)
        /\ ~IsTimingLine(ScannedLine)
        /\ ~IsMetadataMarker(ScannedLine)) => AppendedOnly]_vars

(* C18 witness: with a timestamp open, two text lines are in the buffer in
   the order read *)
C18_Witness ==
    /\ pc = "parse_scan"
    /\ current_timestamp = Some(TS1)
    /\ current_text = <<TaggedLine, IdLine>>
    /\ input_file.lines = <<LineOk(WEBVTT), LineOk(TimingLine1), LineOk(TaggedLine),
                            LineOk(IdLine)>>

(* the line the scanner processed before the current one *)
PreviousLine == input_file.lines[Len(input_file.lines)].line

(* C19 as stated: once the scanner has processed a blank line, the pending
   cue has been flushed if any text had accumulated, the text buffer is
   empty, no timestamp is open and no metadata block is open; and a line
   that is neither blank nor a timing line and directly follows a blank
   line is not taken into any cue's text. *)
C19_BlankLineReset ==
    [][/\ (Scanned /\ IsBlank(ScannedLine)) =>
            /\ cues' = IF current_text # <<>>
                       THEN save_cue(cues, current_timestamp, current_text)
                       ELSE cues
            /\ current_text' = <<>>
            /\ ~current_timestamp'.some
            /\ ~in_metadata_block'
       /\ (/\ Scanned
           /\ Len(input_file.lines) >= 2
           /\ IsBlank(PreviousLine)
           /\ ~IsBlank(ScannedLine)
           /\ ~IsTimingLine(ScannedLine)) =>
            /\ current_text' = <<>>
            /\ cues' = cues]_vars

(* the line was discarded: no cue, text buffer or timestamp changed *)
Discarded == UNCHANGED <<cues, current_text, current_timestamp, document>>

(* C20: a line whose trimmed form begins with NOTE, STYLE or REGION opens a
   metadata block and is discarded; while the block is open every line that
   is neither blank nor a timing line is discarded and the block stays
   open; a blank line ends the block; a timing line ends the block and
   opens a new cue with that line's start time and an empty text buffer. *)
C20_MetadataBlocks ==
    [][Scanned =>
         /\ IsMetadataMarker(ScannedLine) => (in_metadata_block' /\ Discarded)
         /\ (/\ in_metadata_block
             /\ ~IsBlank(ScannedLine)
             /\ ~IsTimingLine(ScannedLine)) => (in_metadata_block' /\ Discarded)
         /\ IsBlank(ScannedLine) => ~in_metadata_block'
         /\ (in_metadata_block /\ IsTimingLine(ScannedLine)) =>
               /\ ~in_metadata_block'
               /\ current_timestamp' = timestamp_regex(ScannedLine)
               /\ current_text' = <<>>]_vars

(* C20 witness: a REGION line and the cue-like line after it were discarded,
   the timing line ended the block, and the new cue's text is accumulated *)
C20_Witness ==
    /\ pc = "parse_scan"
    /\ input_file.lines = <<LineOk(WEBVTT), LineOk(RegionLine), LineOk(TaggedLine),
                            LineOk(TimingLine2), LineOk(AnonymousLine)>>
    /\ ~in_metadata_block
    /\ current_timestamp = Some(TS2)
    /\ current_text = <<AnonymousLine>>
    /\ cues = <<>>

(* the indexes i at which s holds "<v", one whitespace character and, later,
   a ">" : the opening tag of a named voice tag *)
NamedTagStarts(s) ==
    { i \in 1..Len(s) :
        /\ i + 2 <= Len(s)
        /\ s[i] = "<" /\ s[i + 1] = "v" /\ IsWs(s[i + 2])
        /\ \E g \in (i + 3)..Len(s) : s[g] = ">" }

(* the index of the ">" that ends the opening tag starting at i *)
TagEnd(s, i) == CHOOSE g \in (i + 3)..Len(s) :
                    s[g] = ">" /\ \A h \in (i + 3)..(g - 1) : s[h] # ">"

(* the indexes from k on at which "</v>" starts *)
ClosesFrom(s, k) ==
    { c \in k..(Len(s) - 3) : SubSeq(s, c, c + 3) = <<"<", "/", "v", ">">> }

(* the indexes at which "<v>" starts with a "</v>" after it *)
EmptyTagStarts(s) ==
    { i \in 1..(Len(s) - 2) :
        SubSeq(s, i, i + 2) = <<"<", "v", ">">> /\ ClosesFrom(s, i + 3) # {} }

Least(S) == CHOOSE x \in S : \A y \in S : x <= y

(* the name written in the opening tag starting at i, without the
   whitespace around it *)
TagName(s, i) == trim(SubSeq(s, i + 3, TagEnd(s, i) - 1))

NameOrNone(name) == IF name = <<>> THEN None ELSE Some(name)

(* the result the three tiers prescribe for the buffer s *)
ThreeTier(s) ==
    LET closed == { i \in NamedTagStarts(s) : ClosesFrom(s, TagEnd(s, i) + 1) # {} }
    IN  IF closed # {} THEN
            LET i == Least(closed)
                g == TagEnd(s, i)
            IN  [speaker |-> NameOrNone(TagName(s, i)),
                 text |-> SubSeq(s, g + 1, Least(ClosesFrom(s, g + 1)) - 1)]
        ELSE IF EmptyTagStarts(s) # {} THEN
            LET i == Least(EmptyTagStarts(s))
            IN  [speaker |-> None,
                 text |-> SubSeq(s, i + 3, Least(ClosesFrom(s, i + 3)) - 1)]
        ELSE IF NamedTagStarts(s) # {} THEN
            LET i == Least(NamedTagStarts(s))
            IN  [speaker |-> NameOrNone(TagName(s, i)),
                 text |-> SubSeq(s, TagEnd(s, i) + 1, Len(s))]
        ELSE [speaker |-> None, text |-> s]

(* the buffer has been joined and the voice tag extracted *)
Extracted == pc \in {"save_clean", "save_check", "save_done"}

(* C21: the speaker and content extracted from the joined cue buffer are
   those of the first tier that matches, in the order closed named tag,
   closed empty-name tag, open named tag; a closed tag gives its body, an
   open tag all the remaining text, newlines included; with no match the
   speaker is None and the content the whole buffer. *)
C21_ThreeTierExtraction ==
    Extracted =>
        /\ save_combined = join(current_text, <<"\n">>)
        /\ save_speaker = ThreeTier(save_combined).speaker
        /\ save_text = ThreeTier(save_combined).text

(* C21 witness: a closed named tag whose body spans two lines *)
C21_Witness ==
    /\ Extracted
    /\ current_text = <<VoiceTag(Alice) \o Hello, World \o VClose>>
    /\ save_speaker = Some(Alice)
    /\ save_text = Hello \o <<"\n">> \o World

(* the six entities and the character each stands for *)
EntityTable ==
    { [entity |-> <<"&", "a", "m", "p", ";">>, char |-> "&"],
      [entity |-> <<"&", "l", "t", ";">>, char |-> "<"],
      [entity |-> <<"&", "g", "t", ";">>, char |-> ">"],
      [entity |-> <<"&", "q", "u", "o", "t", ";">>, char |-> "\""],
      [entity |-> <<"&", "#", "3", "9", ";">>, char |-> "'"],
      [entity |-> <<"&", "#", "x", "2", "7", ";">>, char |-> "'"] }

(* one pass over s from left to right: each entity written in s is replaced
   by its character, every other character is kept *)
RECURSIVE DecodeOnce(_)
DecodeOnce(s) ==
    IF s = <<>> THEN <<>>
    ELSE LET here == { e \in EntityTable : starts_with(s, e.entity) }
         IN  IF here # {}
             THEN LET e == CHOOSE x \in here : TRUE
                  IN  <<e.char>> \o DecodeOnce(SubSeq(s, Len(e.entity) + 1, Len(s)))
             ELSE <<Head(s)>> \o DecodeOnce(Tail(s))

(* no newline, no two adjacent whitespace characters, no whitespace at
   either end *)
Normalized(s) ==
    /\ \A i \in 1..Len(s) : s[i] # "\n"
    /\ \A i \in 1..(Len(s) - 1) : ~(IsWs(s[i]) /\ IsWs(s[i + 1]))
    /\ s # <<>> => (~IsWs(s[1]) /\ ~IsWs(s[Len(s)]))

(* clean_text has returned *)
Cleaned == pc \in {"save_check", "save_done"} /\ save_cleaned_text.some

(* C22 as stated: the cleaned text is the content with every tag removed,
   then each entity of the tag-stripped text replaced once by its
   character and all other characters unchanged, then whitespace runs
   collapsed to one space, then trimmed; and it holds no newline, no two
   adjacent whitespace characters and no whitespace at either end. *)
C22_CleanProcedure ==
    Cleaned =>
        /\ save_cleaned_text.val =
              trim(collapse_whitespace(DecodeOnce(strip_html_tags(save_text))))
        /\ Normalized(save_cleaned_text.val)

(* every listed character of s is preceded by a backslash that escapes it:
   s reads as a sequence of plain characters and backslash-character pairs *)
RECURSIVE WellEscaped(_)
WellEscaped(s) ==
    IF s = <<>> THEN TRUE
    ELSE IF Head(s) = "\\"
    THEN Len(s) >= 2 /\ s[2] \in ListedSpecials /\ WellEscaped(SubSeq(s, 3, Len(s)))
    ELSE Head(s) \notin ListedSpecials /\ WellEscaped(Tail(s))

(* the document was parsed, its cues consolidated and the segments rendered *)
PipelineRendered ==
    /\ pc \in {"run_write", "run_done"}
    /\ document.some
    /\ segments # <<>>
    /\ markdown # <<>>

(* C23 as stated: in every rendered paragraph the speaker name stands as
   the segment carries it, with no escaping added by the formatter, and
   every Markdown-significant character of it is preceded by an escaping
   backslash, whatever the input document and the placeholder label. *)
C23_SpeakersEscapedAtRender ==
    PipelineRendered =>
        \A i \in 1..Len(segments) :
            /\ Contains(markdown, <<"*", "*">> \o segments[i].speaker \o <<":", "*", "*", " ">>)
            /\ WellEscaped(segments[i].speaker)

(* the text of the cue is empty or whitespace only *)
BlankCue(cue) == \A k \in 1..Len(cue.text) : IsWs(cue.text[k])

(* cs without its i-th cue *)
WithoutCue(cs, i) == SubSeq(cs, 1, i - 1) \o SubSeq(cs, i + 1, Len(cs))

(* C24: a cue whose text is empty or whitespace-only has no effect on the
   consolidation: during the loop the locals, and at the end the returned
   segments, are those obtained for the same cues with that cue removed,
   whatever its speaker and timestamp. *)
C24_EmptyCuesSkipped ==
    \A i \in 1..Len(cons_cues) :
        BlankCue(cons_cues[i]) =>
            LET rest == WithoutCue(cons_cues, i)
            IN  /\ pc = "cons_loop" =>
                      ConsLocals = consolidate_loop(ConsInit, rest,
                                                    unknown_speaker_label, timestamp_mode)
                /\ pc = "cons_done" =>
                      segments = consolidate_cues(rest, unknown_speaker_label,
                                                  timestamp_mode)

(* C24 witness: between two cues of Alice stands a whitespace-only cue that
   has no speaker and has a timestamp, and one segment with the two
   timestamps of Alice's cues was returned *)
C24_Witness ==
    /\ pc = "cons_done"
    /\ unknown_speaker_label = Unknown
    /\ Len(cons_cues) = 3
    /\ cons_cues[1] = [timestamp |-> Some(TS2), speaker |-> Some(Alice), text |-> Hello]
    /\ cons_cues[2] = [timestamp |-> Some(TS1), speaker |-> None, text |-> <<" ">>]
    /\ cons_cues[3] = [timestamp |-> Some(TS2), speaker |-> Some(Alice), text |-> Hello]
    /\ Len(segments) = 1
    /\ segments[1].timestamps = <<TS2, TS2>>

(* two segment sequences agree on everything but the timestamp field *)
AgreeBesidesTimestamp(a, b) ==
    /\ Len(a) = Len(b)
    /\ \A k \in 1..Len(a) :
          /\ a[k].speaker = b[k].speaker
          /\ a[k].text = b[k].text
          /\ a[k].timestamps = b[k].timestamps

(* C25: for the same cues and placeholder label the segments returned under
   the three timestamp policies have the same number of segments and agree
   position by position on speaker, text and the timestamps list; under
   every policy the timestamps list of the k-th segment holds the
   timestamps of the cues of the k-th run. *)
C25_PolicyIndependence ==
    pc = "cons_done" =>
        /\ \A m \in Modes :
              AgreeBesidesTimestamp(
                  segments, consolidate_cues(cons_cues, unknown_speaker_label, m))
        /\ \A k \in 1..Len(segments) :
              segments[k].timestamps =
                  StampsOf(Run(Spoken(cons_cues), unknown_speaker_label, k))

(* C25 witness: under the policy none a segment of two cues carries both
   cue timestamps in its list and no timestamp of its own *)
C25_Witness ==
    /\ pc = "cons_done"
    /\ timestamp_mode = "None"
    /\ Len(segments) = 2
    /\ segments[1].timestamps = <<TS1, TS2>>
    /\ segments[1].timestamp = None
    /\ consolidate_cues(cons_cues, unknown_speaker_label, "First")[1].timestamp = Some(TS1)

(* C26: at every point of the line scan a non-empty pending text buffer
   implies an open timestamp; so the branch for a line met with pending
   text and no open timestamp is never taken, and every flush, in the loop
   or after it, is made with an open timestamp. *)
C26_PendingTextHasTimestamp ==
    current_text # <<>> => current_timestamp.some

(* C26 witness: the scan holds pending text under the second timing line,
   after the first cue was flushed with its timestamp *)
C26_Witness ==
    /\ pc = "parse_scan"
    /\ Len(cues) = 1
    /\ cues[1].timestamp = Some(TS1)
    /\ current_timestamp = Some(TS2)
    /\ current_text = <<TaggedLine>>

(* the positions of the timing lines among the lines read *)
TimingPositions(lines) ==
    { i \in 1..Len(lines) : lines[i].ok /\ IsTimingLine(lines[i].line) }

(* the start time of the most recent timing line among the lines read *)
LastTimingStart(lines) ==
    IF TimingPositions(lines) = {} THEN None
    ELSE LET last == CHOOSE i \in TimingPositions(lines) :
                         \A j \in TimingPositions(lines) : j <= i
         IN  timestamp_regex(lines[last].line)

(* the pending text lines are the last lines of the source that are neither
   blank nor timing lines, all read after the most recent timing line *)
PendingAfterLastTiming ==
    \A k \in 1..Len(current_text) :
        \E i \in 1..Len(input_file.lines) :
            /\ input_file.lines[i].line = current_text[k]
            /\ \A j \in TimingPositions(input_file.lines) : j < i

(* C27: every cue the scan emits has a timestamp, the start time of the
   most recent timing line read before the cue's text lines; while no
   timing line has been read no cue exists; and every cue of the returned
   document has a timestamp, so that the group of cues without timestamp
   is empty in the sort. *)
C27_ParsedCuesTimestamped ==
    [][/\ PendingAfterLastTiming
       /\ cues' # cues =>
            /\ Len(cues') = Len(cues) + 1
            /\ SubSeq(cues', 1, Len(cues)) = cues
            /\ cues'[Len(cues')].timestamp.some
            /\ cues'[Len(cues')].timestamp = LastTimingStart(input_file.lines)
       /\ TimingPositions(input_file'.lines) = {} => cues' = <<>>
       /\ document'.some =>
            /\ Len(document'.val.cues) = Len(cues')
            /\ \A i \in 1..Len(cues') : cues'[i].timestamp.some
            /\ \A i \in 1..Len(document'.val.cues) :
                  document'.val.cues[i].timestamp.some]_vars

(* C27 witness: text before any timing line gave no cue, and the two cues
   of the returned document carry the start times of their timing lines *)
C27_Witness ==
    /\ pc = "parse_done"
    /\ result = Ok
    /\ input_file.lines = <<LineOk(WEBVTT), LineOk(TaggedLine), LineOk(TimingLine2),
                            LineOk(IdLine), LineOk(TimingLine1)>>
    /\ Len(document.val.cues) = 1
    /\ document.val.cues[1].timestamp = Some(TS2)
    /\ document.val.cues[1].text = <<"1">>

(* the Markdown of the cues under one policy used for both stages *)
RenderingUnder(cs, label, mode) ==
    format_markdown(consolidate_cues(cs, label, mode), mode)

(* some run starts with a cue without timestamp and holds a later cue with
   one *)
LateFirstStamp(cs, label) ==
    LET f == Spoken(cs)
    IN  \E k \in 1..RunCount(f, label) :
            LET r == Run(f, label, k)
            IN  /\ ~r[1].timestamp.some
                /\ \E j \in 2..Len(r) : r[j].timestamp.some

(* C28: when every cue has a timestamp, the Markdown rendered under First
   equals the Markdown rendered under Each; the two differ only when some
   run's first cue has no timestamp while a later cue of the run has one. *)
C28_FirstEachEquivalence ==
    pc = "cons_done" =>
        LET first == RenderingUnder(cons_cues, unknown_speaker_label, "First")
            each == RenderingUnder(cons_cues, unknown_speaker_label, "Each")
        IN  /\ timestamp_mode \in {"First", "Each"} =>
                  format_markdown(segments, timestamp_mode) =
                      (IF timestamp_mode = "First" THEN first ELSE each)
            /\ (\A i \in 1..Len(cons_cues) : cons_cues[i].timestamp.some) => first = each
            /\ first # each => LateFirstStamp(cons_cues, unknown_speaker_label)

(* C28 witness: under First a run of two cues stamped t2 and t1 and a run
   of one cue were rendered, each paragraph with its first cue's time *)
C28_Witness ==
    /\ pc = "cons_done"
    /\ timestamp_mode = "First"
    /\ Len(cons_cues) = 3
    /\ \A i \in 1..3 : cons_cues[i].timestamp.some /\ HasText(cons_cues[i])
    /\ Len(segments) = 2
    /\ segments[1].timestamps = <<TS2, TS1>>
    /\ segments[1].timestamp = Some(TS2)
    /\ RenderingUnder(cons_cues, unknown_speaker_label, "Each")
          = format_markdown(segments, "First")

(* the path denotes the file the run reads *)
DenotesInput(path) ==
    path = argv.input \/ (path = HardLink /\ files[HardLink] # None)

(* the output path validate settles on *)
SettledOutput == validate(files, argv).args.output

(* C29 as stated: a run never changes the file it reads; when the output
   path denotes the same file as the input, validate fails with SameFile
   (exit code 64) and the run ends there, nothing parsed or written; and
   the path derived with auto-increment is not the input's own path while
   the input exists. *)
C29_InputNeverOverwritten ==
    [][/\ files'[argv.input] = files[argv.input]
       /\ (/\ pc = "main_validate"
           /\ ~argv.stdout
           /\ SettledOutput.some
           /\ DenotesInput(SettledOutput.val)) =>
             /\ pc' = "main_done"
             /\ result'.kind = "SameFile"
             /\ exit_code(result'.kind) = 64
             /\ document' = None
       /\ (/\ pc = "main_validate"
           /\ argv.output = None /\ ~argv.stdout /\ ~argv.no_auto_increment
           /\ files[argv.input] # None) =>
             args'.output # Some(argv.input)]_vars

(* the starts of the named voice tags of s that are closed *)
ClosedNamedStarts(s) ==
    { i \in NamedTagStarts(s) : ClosesFrom(s, TagEnd(s, i) + 1) # {} }

(* a closed voice tag, named or not, is matched in s *)
HasClosedTag(s) == ClosedNamedStarts(s) # {} \/ EmptyTagStarts(s) # {}

(* the index after the opening tag that is matched in s: the first closed
   named tag if there is one, else the first closed "<v>" *)
MatchedBodyStart(s) ==
    IF ClosedNamedStarts(s) # {}
    THEN TagEnd(s, Least(ClosedNamedStarts(s))) + 1
    ELSE Least(EmptyTagStarts(s)) + 3

(* the body of the matched tag: up to the first "</v>" after the opening *)
MatchedBody(s) ==
    SubSeq(s, MatchedBodyStart(s), Least(ClosesFrom(s, MatchedBodyStart(s))) - 1)

(* the speaker the matched tag names *)
MatchedSpeaker(s) ==
    IF ClosedNamedStarts(s) # {}
    THEN and_then_sanitize(NameOrNone(TagName(s, Least(ClosedNamedStarts(s)))))
    ELSE None

(* C30: when the buffer holds a closed voice tag, at most one cue is
   emitted, its text is the cleaned body of the matched tag alone and its
   speaker the one that tag names; the text before the opening tag and
   after the first closing tag, further tags included, goes into no cue; the
   tag is matched wherever it stands, the first closed named tag before any
   closed "<v>" tag even when that one stands earlier. *)
C30_OutsideTextDiscarded ==
    (pc = "save_done" /\ HasClosedTag(save_combined)) =>
        LET body == MatchedBody(save_combined)
        IN  /\ save_text = body
            /\ Len(cues) <= 1
            /\ cues = <<>> <=> clean_text(body) = <<>>
            /\ cues # <<>> =>
                  /\ cues[1].text = clean_text(body)
                  /\ cues[1].speaker = MatchedSpeaker(save_combined)

(* C30 witness: of "world <v Alice>Hello</v> <v Bob>world</v>" only Hello,
   said by Alice, was emitted *)
C30_Witness ==
    /\ pc = "save_done"
    /\ current_text = <<World \o <<" ">> \o VoiceTag(Alice) \o Hello \o VClose
                           \o <<" ">> \o VoiceTag(Bob) \o World \o VClose>>
    /\ Len(cues) = 1
    /\ cues[1].speaker = Some(Alice)
    /\ cues[1].text = Hello

====
